---- MODULE Spec2Model ----
(***************************************************************************)
(* Anchor observer of sidetree.js (packages/core/src/Observer.ts): the     *)
(* historical sync loop, the live processing loop with its concurrent      *)
(* processing tasks, and the block-reorganization rewind.  The chain and   *)
(* the three stores are the collaborators the observer is constructed with.*)
(***************************************************************************)
EXTENDS Integers, Sequences, FiniteSets

\* ----------------------------------------------------------------- bounds
MaxBlock   == 2      \* highest block height the chain reaches
MaxReorgs  == 1      \* block reorganizations of the chain
MaxUnderProcessing == 2   \* entries the under-processing list may hold
MaxRestarts == 1     \* crashes followed by a new process
MaxFetchFailures == 3   \* consecutive failed fetches of one historical batch
MaxHistoricalBlock == 3 \* highest block height of the historical-sync runs
MaxRetries == 2         \* largest maxRetries of the historical-sync runs
MaxBatchSize == 2       \* largest batchSize of the historical-sync runs
MaxAddLog == 4          \* addTransaction calls the history keeps
MaxAnchorsPerBlock == 2 \* anchors of one block, in the runs with full blocks
MaxFiles == 2           \* files one ipfs.get call delivers
MaxContent == 2         \* distinct file contents
HashBytes == 1          \* bytes of an anchorFileHash (32 in the contract)
MaxOperations == 11     \* largest numberOfOperations of an anchor log
MaxConfigValue == 9     \* largest batch size a pagination config is given
MaxSearchBlock == 4     \* highest latest block of a deployment-block search

\* ------------------------------------------------- configuration in force
historicalBatchSize == 1      \* historicalSyncConfig.batchSize, scaled down
maxConcurrentDownloads == 1   \* constructor argument, scaled down
defaultMaxRetries == 1        \* historicalSyncConfig.maxRetries, scaled down
defaultBatchSize == 2         \* paginationConfig.defaultBatchSize, scaled down
maxBatchSize == 3             \* paginationConfig.maxBatchSize, scaled down

VARIABLES
  \* the chain, as the chain client sees it
  tip,              \* latest block height (getLatestTime().time)
  anchors,          \* anchor records of the canonical chain, in log order
  epoch,            \* number of reorganizations so far; the hash of a block
  \* the persistent stores
  txStore,          \* transaction store: set of anchor records
  opStore,          \* operation store: source transaction numbers with operations
  unresStore,       \* unresolvable transaction store: set of anchor records
  \* the observer
  pc,               \* position of the observer's single control flow
  continuePeriodicProcessing,
  syncState,
  transactionsUnderProcessing,
  cursorTransaction,
  moreTransactions,
  invalidTransactionNumberOrTimeHash,
  blockReorganizationDetected,
  batch,            \* sortedTransactions of the historical batch still to process
  batchEndBlock,
  historicalEntry,  \* transactionUnderProcessing of the historical round
  batchSize,        \* historicalSyncConfig.batchSize
  maxRetries,       \* historicalSyncConfig.maxRetries
  retryCount,       \* retryCount of the catch block of performHistoricalSync
  failedAttempts,   \* processHistoricalBatch calls that threw, in a row, for
                    \* the batch that starts at lastSyncedBlock
  unresolvableTransactionStatus,
  bestKnownValid,   \* bestKnownValidRecentTransactionNumber of the running rewind
  \* history of the run (observations, never read by the observer)
  addLog,           \* the addTransaction calls made while the chain has not
                    \* reorganized, in call order
  events,           \* count of emitted events, by event code
  restarts,
  rewindFrom,       \* the rewind in progress: its valid number and the
                    \* transaction store as it was when it began
  \* the content addressable storage client (CasIpfs)
  ipfsResponse,     \* what ipfs.get did for the last read
  fetchResult,      \* what the last read returned or threw
  \* the anchor encoding of the chain client
  anchorLog,        \* args of the Anchor event under decoding
  anchorString,     \* anchor string decoded from anchorLog
  anchorWritten,    \* arguments the last write passed to contract.anchorHash
  \* the chain client's settings
  paginationConfig, \* ZksyncLedger.paginationConfig
  \* the search for the contract's deployment block
  contractCode,     \* the heights at which getCode answers with code
  search,           \* getContractDeploymentBlock: its position, locals and result
  \* the chain client's read with a transaction number only
  scan,             \* getTransactionsAfterTransactionNumber: position and locals
  \* the sync state as the monitor and other callers see it
  zksyncSyncState,  \* syncState of the Observer of packages/ledger-zksync
  returnedSyncState, \* the value the last getSyncState call returned
  \* history of the calls made on the running Observer
  stopCalled,       \* stopPeriodicProcessing was called after the start returned
  \* the HTTP service
  serviceManager,   \* server.js: the module's serviceManager and its sidetree
  factoryCalls,     \* the calls of the DID-method factory made by init
  requests          \* the requests: their position in the handler

chainVars == <<tip, anchors, epoch>>
storeVars == <<txStore, opStore, unresStore>>
loopVars  == <<moreTransactions, invalidTransactionNumberOrTimeHash,
               blockReorganizationDetected>>
histVars  == <<batch, batchEndBlock, batchSize, maxRetries, retryCount,
               failedAttempts>>
histAll   == <<batch, batchEndBlock, batchSize, maxRetries, retryCount,
               failedAttempts,
               historicalEntry>>
vars == <<tip, anchors, epoch, txStore, opStore, unresStore, pc,
          continuePeriodicProcessing, syncState, transactionsUnderProcessing,
          cursorTransaction, moreTransactions,
          invalidTransactionNumberOrTimeHash, blockReorganizationDetected,
          batch, batchEndBlock, historicalEntry,
          batchSize, maxRetries, retryCount, failedAttempts,
          unresolvableTransactionStatus, bestKnownValid,
          addLog, events, restarts, rewindFrom,
          ipfsResponse, fetchResult,
          anchorLog, anchorString, anchorWritten, paginationConfig,
          contractCode, search, scan, zksyncSyncState, returnedSyncState,
          stopCalled, serviceManager, factoryCalls, requests>>

casVars == <<ipfsResponse, fetchResult>>
anchorVars == <<anchorLog, anchorString, anchorWritten>>
paginationVars == <<paginationConfig>>
searchVars == <<contractCode, search>>
scanVars == <<scan>>
monitorVars == <<zksyncSyncState, returnedSyncState>>
stopVars == <<stopCalled>>
serviceVars == <<serviceManager, factoryCalls, requests>>
clientVars == <<casVars, anchorVars, paginationVars, searchVars, scanVars,
                monitorVars, stopVars, serviceVars>>

\* ------------------------------------------------------------ data model
\* `undefined` where the code holds a TransactionModel | undefined
Undefined == [transactionNumber |-> -1, transactionTime |-> 0,
              transactionTimeHash |-> -1]
\* `undefined` where the code holds a transaction number | undefined
NoNumber == -1

Processing == "processing"
Processed  == "processed"
Error      == "error"

\* what the version's transaction processor did with a record
Outcomes == {"true", "false", "threw"}

Range(s) == {s[i] : i \in 1..Len(s)}

Min(a, b) == IF a <= b THEN a ELSE b

\* Array.prototype.sort with the comparator a.transactionNumber - b.transactionNumber
RECURSIVE InsertByNumber(_, _)
InsertByNumber(s, t) ==
  IF s = <<>> THEN <<t>>
  ELSE IF t.transactionNumber < Head(s).transactionNumber
       THEN <<t>> \o s
       ELSE <<Head(s)>> \o InsertByNumber(Tail(s), t)

RECURSIVE SortByTransactionNumber(_)
SortByTransactionNumber(s) ==
  IF s = <<>> THEN <<>>
  ELSE InsertByNumber(SortByTransactionNumber(SubSeq(s, 1, Len(s) - 1)), s[Len(s)])

\* --------------------------------------------------------------- the chain
\* transactionTimeHash of a log mined now at the given height
BlockHash(height) == epoch

\* the record's (number, hash) still matches the chain
IsOnChain(t) == \E i \in 1..Len(anchors) : anchors[i] = t

\* ZksyncLedger._getTransactions: provider.getLogs over [fromBlock, toBlock],
\* both ends included
getTransactions(fromBlock, toBlock) ==
  SelectSeq(anchors, LAMBDA a : a.transactionTime >= fromBlock
                              /\ a.transactionTime <= toBlock)

\* IBlockchain.read: the records after the cursor
readTransactions(cursor) ==
  SelectSeq(anchors, LAMBDA a : a.transactionNumber > cursor.transactionNumber)

\* IBlockchain.read throws InvalidTransactionNumberOrTimeHash
readIsInvalid(cursor) == cursor # Undefined /\ ~IsOnChain(cursor)

\* ZksyncLedger.shouldCheckForMoreTransactions
shouldCheckForMoreTransactions(transactions, sinceDefined) ==
  IF Len(transactions) = 0 THEN FALSE
  ELSE IF Len(transactions) >= defaultBatchSize THEN TRUE
  ELSE sinceDefined /\ Len(transactions) > 0

\* ZksyncLedger.read as the live loop calls it: with the number and the
\* hash of the cursor, or with neither when the store is empty.  The block
\* of the hash is looked up; a hash the chain does not have, or the block
\* of number 0, gives no block to look into.
zksyncTransactions(cursor) ==
  IF cursor # Undefined
  THEN IF IsOnChain(cursor) /\ cursor.transactionTime # 0
       THEN SelectSeq(
              getTransactions(cursor.transactionTime, cursor.transactionTime),
              LAMBDA tx : tx.transactionNumber = cursor.transactionNumber)
       ELSE <<>>
  ELSE getTransactions(IF tip - defaultBatchSize > 0
                       THEN tip - defaultBatchSize ELSE 0, tip)

\* (invalid: the read throws InvalidTransactionNumberOrTimeHash; no path
\* of the method does)
zksyncRead(cursor) ==
  [transactions |-> zksyncTransactions(cursor),
   moreTransactions |->
     shouldCheckForMoreTransactions(zksyncTransactions(cursor),
                                    cursor # Undefined),
   invalid |-> FALSE]

\* ZksyncLedger.read of packages/ledger-zksync: with a transaction number
\* it fetches every anchor and, if there is exactly one, the anchors from
\* that one's block on; the hash is not looked at
originalZksyncRead(cursor) ==
  [transactions |->
     IF cursor # Undefined
     THEN IF Len(anchors) = 1
          THEN getTransactions(anchors[1].transactionTime, tip)
          ELSE <<>>
     ELSE getTransactions(0, tip),
   moreTransactions |-> FALSE,
   invalid |-> FALSE]

\* -------------------------------------------------------------- the stores
\* ITransactionStore.addTransaction
addTransaction(store, t) ==
  IF \E x \in store : x.transactionNumber = t.transactionNumber
  THEN store ELSE store \cup {t}

\* ITransactionStore.getLastTransaction
getLastTransaction(store) ==
  IF store = {} THEN Undefined
  ELSE CHOOSE t \in store :
         \A x \in store : x.transactionNumber <= t.transactionNumber

\* ITransactionStore.removeTransactionsLaterThan
removeTransactionsLaterThan(store, n) ==
  IF n = NoNumber THEN {}
  ELSE {t \in store : t.transactionNumber <= n}

\* the store's records, newest first
RECURSIVE NewestFirst(_)
NewestFirst(store) ==
  IF store = {} THEN <<>>
  ELSE LET t == getLastTransaction(store)
       IN <<t>> \o NewestFirst(store \ {t})

\* ITransactionStore.getExponentiallySpacedTransactions: the records at
\* positions 1, 2, 4, 8, ... counted from the newest
RECURSIVE SpacedFrom(_, _)
SpacedFrom(s, i) ==
  IF i > Len(s) THEN <<>> ELSE <<s[i]>> \o SpacedFrom(s, 2 * i)

getExponentiallySpacedTransactions(store) == SpacedFrom(NewestFirst(store), 1)

\* IBlockchain.getFirstValidTransaction as the capability states it: the
\* newest record of the sample that is still on the chain
RECURSIVE FirstValid(_)
FirstValid(sample) ==
  IF sample = <<>> THEN Undefined
  ELSE IF IsOnChain(Head(sample)) THEN Head(sample)
       ELSE FirstValid(Tail(sample))

\* ZksyncLedger.getFirstValidTransaction: resolves undefined for every sample
ZksyncFirstValid(sample) == Undefined

\* the answers a chain client gives to the reorg probe
getFirstValidTransaction(sample) == {FirstValid(sample), ZksyncFirstValid(sample)}

\* IOperationStore.delete
operationStoreDelete(store, n) ==
  IF n = NoNumber THEN {} ELSE {k \in store : k <= n}

\* IUnresolvableTransactionStore.removeUnresolvableTransactionsLaterThan
removeUnresolvableTransactionsLaterThan(store, n) ==
  IF n = NoNumber THEN {}
  ELSE {t \in store : t.transactionNumber <= n}

\* IUnresolvableTransactionStore.removeUnresolvableTransaction
removeUnresolvableTransaction(store, t) ==
  {x \in store : x.transactionNumber # t.transactionNumber}

\* IUnresolvableTransactionStore.recordUnresolvableTransactionFetchAttempt
recordUnresolvableTransactionFetchAttempt(store, t) ==
  removeUnresolvableTransaction(store, t) \cup {t}

\* ITransactionProcessor.processTransaction: the operation stores it may
\* leave behind; a processor that threw may have written part of the batch
processorWrites(store, t, outcome) ==
  CASE outcome = "true"  -> {store \cup {t.transactionNumber}}
    [] outcome = "false" -> {store}
    [] outcome = "threw" -> {store, store \cup {t.transactionNumber}}

\* ThroughputLimiter.getQualifiedTransactions: at most maxPerBlock records
\* of one block per admission
maxPerBlock == 1

qualifiedTransactions(txs) ==
  SelectSeq(txs, LAMBDA t :
    Cardinality({x \in Range(txs) :
                   /\ x.transactionTime = t.transactionTime
                   /\ x.transactionNumber < t.transactionNumber}) < maxPerBlock)

\* ------------------------------------------------------------ the observer
\* Observer.getCountOfTransactionsUnderProcessing
getCountOfTransactionsUnderProcessing(list) ==
  Cardinality({i \in 1..Len(list) : list[i].processingStatus = Processing})

\* Observer.hasErrorInTransactionProcessing
hasErrorInTransactionProcessing(list) ==
  \E i \in 1..Len(list) : list[i].processingStatus = Error

\* the wait compares with count + 1
waitUntilCountIsLessOrEqualToPlusOne(list, count) ==
  getCountOfTransactionsUnderProcessing(list) <= count + 1

\* a wait that returns at once
waitWithoutPolling(list, count) == TRUE

\* Observer.waitUntilCountOfTransactionsUnderProcessingIsLessOrEqualTo: the
\* condition under which its polling loop ends
waitUntilCountOfTransactionsUnderProcessingIsLessOrEqualTo(list, count) ==
  getCountOfTransactionsUnderProcessing(list) <= count

\* Observer.processTransaction: how the removal it requests on `true`, and
\* does not await, settles; no removal is requested on any other outcome
removalsAfterProcessing(outcome) ==
  IF outcome = "true" THEN {"removed", "failed"} ELSE {"none"}

\* the status of an entry whose removal was awaited outside the try block
statusAfterAwaitedRemoval(outcome, removal) ==
  IF removal = "failed" THEN Processing ELSE Processed

\* Observer.processTransaction: the status the entry is left with
statusAfterProcessing(outcome, removal) == Processed

\* Observer.processTransaction: the unresolvable store it leaves behind
unresolvableAfterProcessing(store, t, removal) ==
  IF removal = "removed" THEN removeUnresolvableTransaction(store, t)
  ELSE store

\* a walk that takes every entry of the sequence
wholeSequence(list, i) == Len(list)

\* Observer.storeThenTrimConsecutiveTransactionsProcessed: the index i at
\* which its while loop stops
RECURSIVE consecutiveProcessed(_, _)
consecutiveProcessed(list, i) ==
  IF i < Len(list) /\ list[i + 1].processingStatus = Processed
  THEN consecutiveProcessed(list, i + 1) ELSE i

RECURSIVE addAll(_, _)
addAll(store, entries) ==
  IF entries = <<>> THEN store
  ELSE addAll(addTransaction(store, Head(entries).transaction), Tail(entries))

\* what the history keeps of an addTransaction call: the record's number
LogEntry(e) == e.transaction.transactionNumber

RECURSIVE logAll(_, _)
logAll(log, entries) ==
  IF entries = <<>> \/ epoch > 0 \/ Len(log) >= MaxAddLog THEN log
  ELSE logAll(Append(log, LogEntry(Head(entries))), Tail(entries))

\* Observer.storeThenTrimConsecutiveTransactionsProcessed
storeThenTrim ==
  LET i == consecutiveProcessed(transactionsUnderProcessing, 0)
      stored == SubSeq(transactionsUnderProcessing, 1, i)
  IN /\ txStore' = addAll(txStore, stored)
     /\ addLog' = logAll(addLog, stored)
     /\ transactionsUnderProcessing' =
          SubSeq(transactionsUnderProcessing, i + 1,
                 Len(transactionsUnderProcessing))

\* the entries Observer.processTransactions pushes for the admitted records
\* (first marks the first entry of the records admitted by one read)
RECURSIVE newEntries(_, _)
newEntries(txs, first) ==
  IF txs = <<>> THEN <<>>
  ELSE <<[transaction |-> Head(txs), processingStatus |-> Processing,
          outcome |-> "none", removal |-> "none", first |-> first]>>
       \o newEntries(Tail(txs), FALSE)

\* the pc after the body of the do-while loop of processTransactions
afterLoopBody(more) == IF more THEN "read" ELSE "sweep"

\* the pc after the finally block of processTransactions
afterIteration == IF continuePeriodicProcessing THEN "idle" ELSE "stopped"

NoEntry == [transaction |-> Undefined, processingStatus |-> Processing,
            outcome |-> "none", removal |-> "none", first |-> FALSE]

NoRewind == [active |-> FALSE, valid |-> NoNumber, store |-> {}]

InitialSyncState ==
  [phase |-> "historical", lastSyncedBlock |-> 0, targetBlock |-> 0,
   contractDeploymentBlock |-> 0, isComplete |-> FALSE]

\* the fields of a freshly constructed Observer
Constructed ==
  /\ pc' = "constructed"
  /\ continuePeriodicProcessing' = FALSE
  /\ syncState' = InitialSyncState
  /\ transactionsUnderProcessing' = <<>>
  /\ cursorTransaction' = Undefined
  /\ moreTransactions' = FALSE
  /\ invalidTransactionNumberOrTimeHash' = FALSE
  /\ blockReorganizationDetected' = FALSE
  /\ batch' = <<>>
  /\ batchEndBlock' = 0
  /\ historicalEntry' = NoEntry
  /\ batchSize' = batchSize
  /\ maxRetries' = maxRetries
  /\ retryCount' = 0
  /\ failedAttempts' = 0
  /\ unresolvableTransactionStatus' = <<>>
  /\ bestKnownValid' = NoNumber
  /\ events' = <<>>

\* ------------------------------------------------------------ the CAS client
NoContent == 0
NoFailure == [at |-> -1, name |-> "none", message |-> "none"]
NoResponse == [files |-> <<>>, failure |-> NoFailure]
NoResult == [code |-> "none", content |-> NoContent, thrown |-> NoFailure]

\* the errors ipfs.get or the iteration over its files may throw: after `at`
\* files were delivered whole, with a name and with a message that holds
\* 'not found', holds something else, or is absent
Failures ==
  [at : 0..MaxFiles, name : {"TimeoutError", "Error"},
   message : {"not found", "other", "absent"}]

RECURSIVE SeqsUpTo(_, _)
SeqsUpTo(S, n) ==
  IF n = 0 THEN {<<>>}
  ELSE SeqsUpTo(S, n - 1)
         \cup {Append(q, x) : q \in {r \in SeqsUpTo(S, n - 1) : Len(r) = n - 1},
                                x \in S}

\* what ipfs.get may do: the files it delivers, each with a content or
\* without one, and the error it throws, if any
Responses ==
  [files : SeqsUpTo({NoContent} \cup (1..MaxContent), MaxFiles),
   failure : {NoFailure} \cup Failures]

\* the files the loop of CasIpfs.read gets to see before the error
delivered(response) ==
  IF response.failure = NoFailure THEN response.files
  ELSE SubSeq(response.files, 1,
              Min(response.failure.at, Len(response.files)))

\* the catch block that rethrows the timeout as well
casReadCatchRaisingTimeout(err) ==
  IF err.message = "not found"
  THEN [code |-> "NotFound", content |-> NoContent, thrown |-> NoFailure]
  ELSE [code |-> "none", content |-> NoContent, thrown |-> err]

\* the catch block of CasIpfs.read
casReadCatch(err) ==
  IF err.name = "TimeoutError" \/ err.message = "not found"
  THEN [code |-> "NotFound", content |-> NoContent, thrown |-> NoFailure]
  ELSE [code |-> "none", content |-> NoContent, thrown |-> err]

\* CasIpfs.read: the first delivered file with a content is returned with
\* Success; an error thrown before goes to the catch block; no such file
\* and no error is NotFound
casRead(response) ==
  LET seen == SelectSeq(delivered(response), LAMBDA f : f # NoContent)
  IN IF seen # <<>>
     THEN [code |-> "Success", content |-> Head(seen), thrown |-> NoFailure]
     ELSE IF response.failure # NoFailure
     THEN casReadCatch(response.failure)
     ELSE [code |-> "NotFound", content |-> NoContent, thrown |-> NoFailure]

\* ------------------------------------------------------ the anchor encoding
\* Strings are sequences of one-character strings, buffers are sequences of
\* bytes.
HexDigits == <<"0", "1", "2", "3", "4", "5", "6", "7",
               "8", "9", "a", "b", "c", "d", "e", "f">>
DecimalDigits == <<"0", "1", "2", "3", "4", "5", "6", "7", "8", "9">>
Base58Alphabet ==
  <<"1", "2", "3", "4", "5", "6", "7", "8", "9",
    "A", "B", "C", "D", "E", "F", "G", "H", "J", "K", "L", "M", "N", "P", "Q",
    "R", "S", "T", "U", "V", "W", "X", "Y", "Z",
    "a", "b", "c", "d", "e", "f", "g", "h", "i", "j", "k", "m", "n", "o", "p",
    "q", "r", "s", "t", "u", "v", "w", "x", "y", "z">>

\* the position of a character in an alphabet, counted from 0; -1 if absent
indexIn(alphabet, c) ==
  IF \E i \in 1..Len(alphabet) : alphabet[i] = c
  THEN (CHOOSE i \in 1..Len(alphabet) : alphabet[i] = c) - 1
  ELSE -1

\* Buffer.toString('hex'): two lower-case digits per byte
RECURSIVE toHex(_)
toHex(buffer) ==
  IF buffer = <<>> THEN <<>>
  ELSE <<HexDigits[(Head(buffer) \div 16) + 1],
         HexDigits[(Head(buffer) % 16) + 1]>> \o toHex(Tail(buffer))

\* Buffer.from(string, 'hex'): one byte per pair of hex digits, up to the
\* first pair that is not one
RECURSIVE fromHex(_)
fromHex(string) ==
  IF Len(string) < 2 THEN <<>>
  ELSE IF indexIn(HexDigits, string[1]) < 0 \/ indexIn(HexDigits, string[2]) < 0
       THEN <<>>
       ELSE <<indexIn(HexDigits, string[1]) * 16 + indexIn(HexDigits, string[2])>>
              \o fromHex(SubSeq(string, 3, Len(string)))

\* String.replace('0x', ''): the first occurrence is removed
RECURSIVE replace0x(_)
replace0x(string) ==
  IF Len(string) < 2 THEN string
  ELSE IF string[1] = "0" /\ string[2] = "x"
       THEN SubSeq(string, 3, Len(string))
       ELSE <<string[1]>> \o replace0x(Tail(string))

\* String.substring(from)
substring(string, from) == SubSeq(string, from + 1, Len(string))

\* the decimal numeral of a number, as template literals and String() give it
RECURSIVE toDecimal(_)
toDecimal(n) ==
  IF n < 10 THEN <<DecimalDigits[n + 1]>>
  ELSE toDecimal(n \div 10) \o <<DecimalDigits[(n % 10) + 1]>>

\* Number.parseInt of a decimal numeral: the digits up to the first
\* character that is none (NaN, here -1, if there is no digit)
RECURSIVE parseDigits(_, _)
parseDigits(string, value) ==
  IF string = <<>> \/ indexIn(DecimalDigits, Head(string)) < 0 THEN value
  ELSE parseDigits(Tail(string),
                   value * 10 + indexIn(DecimalDigits, Head(string)))

parseInt(string) ==
  IF string = <<>> \/ indexIn(DecimalDigits, Head(string)) < 0 THEN -1
  ELSE parseDigits(string, 0)

\* the number of leading elements of a sequence that equal x
RECURSIVE leading(_, _)
leading(sequence, x) ==
  IF sequence = <<>> \/ Head(sequence) # x THEN 0
  ELSE 1 + leading(Tail(sequence), x)

repeated(x, n) == [i \in 1..n |-> x]

\* the digits of a number in a base, most significant first; none for 0
RECURSIVE digitsOf(_, _)
digitsOf(value, base) ==
  IF value = 0 THEN <<>>
  ELSE Append(digitsOf(value \div base, base), value % base)

\* the number a sequence of digits in a base stands for
RECURSIVE valueOf(_, _, _)
valueOf(digits, base, value) ==
  IF digits = <<>> THEN value
  ELSE valueOf(Tail(digits), base, value * base + Head(digits))

\* Encoder.bufferToBase58: every leading zero byte is a '1', the rest is the
\* buffer's number in base 58
bufferToBase58(buffer) ==
  LET zeros == leading(buffer, 0)
      digits == digitsOf(valueOf(buffer, 256, 0), 58)
  IN repeated("1", zeros) \o [i \in 1..Len(digits) |-> Base58Alphabet[digits[i] + 1]]

\* Encoder.base58ToBuffer: every leading '1' is a zero byte, the rest is the
\* string's number in base 256
base58ToBuffer(string) ==
  LET ones == leading(string, "1")
      digits == [i \in 1..Len(string) |-> indexIn(Base58Alphabet, string[i])]
  IN repeated(0, ones) \o digitsOf(valueOf(digits, 58, 0), 256)

\* AnchoredDataSerializer.serialize: "<numberOfOperations>.<coreIndexFileUri>"
serialize(anchorObject) ==
  toDecimal(anchorObject.numberOfOperations) \o <<".">>
    \o anchorObject.coreIndexFileUri

\* AnchoredDataSerializer.deserialize: the two parts around the delimiter
deserialize(string) ==
  LET dot == CHOOSE i \in 1..Len(string) : string[i] = "."
  IN [numberOfOperations |-> parseInt(SubSeq(string, 1, dot - 1)),
      coreIndexFileUri |-> SubSeq(string, dot + 1, Len(string))]

NoLog == [anchorFileHash |-> <<>>, numberOfOperations |-> <<>>]

\* the multihash prefix of a 32-byte SHA-256 digest, as hex digits
multihashPrefix == <<"1", "2", "2", "0">>

\* utils.eventLogToSidetreeTransaction: the anchor string of a log
eventLogToAnchorString(log) ==
  LET coreIndexFileUri ==
        bufferToBase58(fromHex(multihashPrefix \o replace0x(log.anchorFileHash)))
  IN serialize([coreIndexFileUri |-> coreIndexFileUri,
                numberOfOperations |-> parseInt(log.numberOfOperations)])

\* ZksyncLedger.write with one byte stripped instead of two
anchorHashArgumentsStrippingOneByte(string) ==
  LET anchorObject == deserialize(string)
      buffer == base58ToBuffer(anchorObject.coreIndexFileUri)
  IN [anchorFileHash |-> <<"0", "x">> \o substring(toHex(buffer), 2),
      numberOfOperations |-> toDecimal(anchorObject.numberOfOperations)]

\* ZksyncLedger.write: the arguments of contract.anchorHash, the number as
\* the log will carry it
anchorHashArguments(string) ==
  LET anchorObject == deserialize(string)
      buffer == base58ToBuffer(anchorObject.coreIndexFileUri)
  IN [anchorFileHash |-> <<"0", "x">> \o substring(toHex(buffer), 4),
      numberOfOperations |-> toDecimal(anchorObject.numberOfOperations)]

\* --------------------------------------------------- the pagination config
\* the field initializer of ZksyncLedger.paginationConfig
DefaultPaginationConfig ==
  [defaultBatchSize |-> defaultBatchSize, maxBatchSize |-> maxBatchSize]

\* a field a Partial<PaginationConfig> does not have
NotGiven == -2

\* the Partial<PaginationConfig> values a caller may pass: each field a
\* number, or absent
PartialPaginationConfigs ==
  [defaultBatchSize : {NotGiven} \cup (-1..MaxConfigValue),
   maxBatchSize : {NotGiven} \cup (-1..MaxConfigValue)]

\* { ...this.paginationConfig, ...config }
mergePaginationConfig(current, config) ==
  [defaultBatchSize |-> IF config.defaultBatchSize = NotGiven
                        THEN current.defaultBatchSize
                        ELSE config.defaultBatchSize,
   maxBatchSize |-> IF config.maxBatchSize = NotGiven
                    THEN current.maxBatchSize
                    ELSE config.maxBatchSize]

\* ------------------------------------------ the deployment-block search
\* getContractDeploymentBlock not called: phase is "idle"; "loop" while the
\* binary search runs; "returned" after the return
NoSearch == [phase |-> "idle", latestBlock |-> 0, low |-> 0, high |-> 0,
             failed |-> FALSE, result |-> 0]

\* Math.floor((low + high) / 2)
midOf(low, high) == (low + high) \div 2

\* ------------------------------------------ the read after a number only
\* read(sinceTransactionNumber) not called: phase is "idle"; "loop" at the
\* test of the while loop, "filter" after the window's fetch has resolved,
\* "returned" and "threw" after the call
NoScan == [phase |-> "idle", since |-> 0, batchSize |-> 0, currentBlock |-> 0,
           fromBlock |-> 0, batchTransactions |-> <<>>, transactions |-> <<>>,
           moreTransactions |-> FALSE]

\* Math.max
Max(a, b) == IF a >= b THEN a ELSE b

\* the while condition of getTransactionsAfterTransactionNumber
scanContinues(state) ==
  state.currentBlock > 0 /\ state.transactions = <<>>

\* --------------------------------------------- the sync state, as returned
\* no getSyncState call was made; otherwise `by` names the Observer that
\* answered, `shared` tells that the value is the Observer's own object and
\* not a copy of it
NothingReturned == [by |-> "none", shared |-> FALSE, value |-> InitialSyncState]

\* the values a caller can give to one field of a SyncState it holds
modifiedSyncStates(value) ==
  {[value EXCEPT !.phase = phase] : phase \in {"historical", "live"}}
    \cup {[value EXCEPT !.lastSyncedBlock = block] : block \in 0..MaxBlock}
    \cup {[value EXCEPT !.targetBlock = block] : block \in 0..MaxBlock}
    \cup {[value EXCEPT !.contractDeploymentBlock = block] :
             block \in 0..MaxBlock}
    \cup {[value EXCEPT !.isComplete = complete] : complete \in BOOLEAN}

\* ------------------------------------------------------- the HTTP service
\* the requests the server is sent
MaxRequests == 3
Requests == 1..MaxRequests

\* server.js: `let serviceManager;` before the first request; `init` is
\* where the call of init stands
NoServiceManager == [created |-> FALSE, sidetree |-> "null", init |-> "none"]

\* new SidetreeServiceManager(): sidetree is null
NewServiceManager == [created |-> TRUE, sidetree |-> "null", init |-> "none"]

\* a request that has not arrived; `sidetree` is what `await
\* service.sidetree` gave it
NoRequest == [pc |-> "none", sidetree |-> "none"]

\* the first Observer over empty stores and a chain at its genesis block,
\* whatever its retry configuration
FirstConstruction ==
  /\ tip = 0 /\ anchors = <<>> /\ epoch = 0
  /\ txStore = {} /\ opStore = {} /\ unresStore = {}
  /\ pc = "constructed"
  /\ continuePeriodicProcessing = FALSE
  /\ syncState = InitialSyncState
  /\ transactionsUnderProcessing = <<>>
  /\ cursorTransaction = Undefined
  /\ moreTransactions = FALSE
  /\ invalidTransactionNumberOrTimeHash = FALSE
  /\ blockReorganizationDetected = FALSE
  /\ batch = <<>>
  /\ batchEndBlock = 0
  /\ historicalEntry = NoEntry
  /\ retryCount = 0
  /\ failedAttempts = 0
  /\ unresolvableTransactionStatus = <<>>
  /\ bestKnownValid = NoNumber
  /\ addLog = <<>>
  /\ events = <<>>
  /\ restarts = 0
  /\ rewindFrom = NoRewind
  /\ ipfsResponse = NoResponse
  /\ fetchResult = NoResult
  /\ anchorLog = NoLog
  /\ anchorString = <<>>
  /\ anchorWritten = NoLog
  /\ contractCode = {}
  /\ search = NoSearch
  /\ scan = NoScan
  /\ zksyncSyncState = InitialSyncState
  /\ returnedSyncState = NothingReturned
  /\ stopCalled = FALSE
  /\ serviceManager = NoServiceManager
  /\ factoryCalls = 0
  /\ requests = [r \in Requests |-> NoRequest]

Init ==
  /\ FirstConstruction
  /\ batchSize = historicalBatchSize
  /\ maxRetries = defaultMaxRetries
  /\ paginationConfig = DefaultPaginationConfig

observerVars == <<pc, continuePeriodicProcessing, syncState,
                  transactionsUnderProcessing, cursorTransaction,
                  moreTransactions, invalidTransactionNumberOrTimeHash,
                  blockReorganizationDetected, batch, batchEndBlock,
                  historicalEntry, batchSize, maxRetries, retryCount,
                  failedAttempts,
                  unresolvableTransactionStatus, bestKnownValid, events>>

\* ------------------------------------------------------- chain environment
\* The observer looks at the chain when it initializes its sync state, when
\* it fetches a historical batch, when it reads in the live loop and when it
\* probes for the rewind.  A change of the chain at any other moment is seen
\* at the next of these, so the chain moves where pc is one of them.
ChainObserved == pc \in {"queued", "histLoop", "read", "quiesce"}

\* ... and a new block shows only to the sync-state decision, to a live read
\* and to a historical fetch that still has heights above the chain's tip
MineObserved ==
  \/ pc \in {"queued", "read"}
  \/ pc = "histLoop" /\ tip < syncState.targetBlock

\* a block is mined; the anchor contract may log one anchor in it
MineUpTo(highest) ==
  /\ MineObserved
  /\ tip < highest
  /\ tip' = tip + 1
  /\ \E withAnchor \in BOOLEAN :
       anchors' = IF withAnchor
                  THEN Append(anchors,
                         [transactionNumber |-> Len(anchors),
                          transactionTime |-> tip + 1,
                          transactionTimeHash |-> BlockHash(tip + 1)])
                  ELSE anchors
  /\ UNCHANGED <<epoch, storeVars, observerVars, addLog, restarts, rewindFrom>>
  /\ UNCHANGED clientVars

Mine == MineUpTo(MaxBlock)

\* the anchors the contract logs in a new block, numbered on from next
RECURSIVE AnchorsOfBlock(_, _, _)
AnchorsOfBlock(height, next, count) ==
  IF count = 0 THEN <<>>
  ELSE <<[transactionNumber |-> next, transactionTime |-> height,
          transactionTimeHash |-> BlockHash(height)]>>
       \o AnchorsOfBlock(height, next + 1, count - 1)

\* a block with up to MaxAnchorsPerBlock anchors is mined while the live
\* loop is about to read
MineFullBlock ==
  /\ pc = "read"
  /\ tip < MaxBlock
  /\ tip' = tip + 1
  /\ \E count \in 0..MaxAnchorsPerBlock :
       anchors' = anchors \o AnchorsOfBlock(tip + 1, Len(anchors), count)
  /\ UNCHANGED <<epoch, storeVars, observerVars, addLog, restarts, rewindFrom>>
  /\ UNCHANGED clientVars

\* the chain reorganizes from height r on: the blocks from r on and their
\* anchors leave the canonical chain
Reorg ==
  /\ ChainObserved
  /\ epoch < MaxReorgs
  /\ \E r \in 1..tip :
       /\ tip' = r - 1
       /\ anchors' = SelectSeq(anchors, LAMBDA a : a.transactionTime < r)
  /\ epoch' = epoch + 1
  /\ addLog' = <<>>
  /\ UNCHANGED <<storeVars, observerVars, restarts, rewindFrom>>
  /\ UNCHANGED clientVars

\* --------------------------------------------------- start, stop and crash
\* Observer.startPeriodicProcessing: queues the callback with setImmediate
StartPeriodicProcessing ==
  /\ pc = "constructed"
  /\ pc' = "queued"
  /\ UNCHANGED <<chainVars, storeVars, continuePeriodicProcessing, syncState,
                 transactionsUnderProcessing, cursorTransaction, loopVars,
                 histAll, unresolvableTransactionStatus, bestKnownValid,
                 addLog, events, restarts, rewindFrom>>
  /\ UNCHANGED clientVars

\* initializeSyncState resuming the historical sync already at a gap equal
\* to the batch size
initializeSyncStateAtEqualGap(last, lastBlockKnown) ==
  IF last = Undefined
  THEN [phase |-> "historical", lastSyncedBlock |-> 0, targetBlock |-> tip,
        contractDeploymentBlock |-> 0, isComplete |-> FALSE]
  ELSE IF lastBlockKnown /\ tip - last.transactionTime >= batchSize
       THEN [phase |-> "historical",
             lastSyncedBlock |-> last.transactionTime, targetBlock |-> tip,
             contractDeploymentBlock |-> 0, isComplete |-> FALSE]
       ELSE [syncState EXCEPT !.phase = "live", !.targetBlock = tip,
                              !.isComplete = TRUE]

\* Observer.initializeSyncState: the sync state it decides on
initializeSyncState(last, lastBlockKnown) ==
  IF last = Undefined
  THEN [phase |-> "historical", lastSyncedBlock |-> 0, targetBlock |-> tip,
        contractDeploymentBlock |-> 0, isComplete |-> FALSE]
  ELSE IF lastBlockKnown /\ tip - last.transactionTime > batchSize
       THEN [phase |-> "historical",
             lastSyncedBlock |-> last.transactionTime, targetBlock |-> tip,
             contractDeploymentBlock |-> 0, isComplete |-> FALSE]
       ELSE [syncState EXCEPT !.phase = "live", !.targetBlock = tip,
                              !.isComplete = TRUE]

\* the callback calling processTransactions without awaiting the
\* historical sync it needs
DeferredCallbackWithoutAwait ==
  /\ pc = "queued"
  /\ continuePeriodicProcessing' = TRUE
  /\ LET last == getLastTransaction(txStore)
     IN \/ /\ last = Undefined \/ IsOnChain(last)
           /\ syncState' = initializeSyncState(last, TRUE)
           /\ pc' = "live"
        \/ /\ last # Undefined /\ ~IsOnChain(last)
           /\ \/ /\ syncState' = [syncState EXCEPT !.targetBlock = tip]
                 /\ pc' = "failed"
              \/ /\ syncState' = initializeSyncState(last, FALSE)
                 /\ pc' = "live"
  /\ rewindFrom' = NoRewind
  /\ UNCHANGED <<chainVars, storeVars, transactionsUnderProcessing,
                 cursorTransaction, loopVars, histAll,
                 unresolvableTransactionStatus, bestKnownValid, addLog,
                 events, restarts>>
  /\ UNCHANGED clientVars

\* the callback startPeriodicProcessing queued, up to the first loop it enters
DeferredCallback ==
  /\ pc = "queued"
  /\ continuePeriodicProcessing' = TRUE
  /\ LET last == getLastTransaction(txStore)
     IN \/ /\ last = Undefined \/ IsOnChain(last)
           /\ syncState' = initializeSyncState(last, TRUE)
           /\ pc' = IF syncState'.phase = "historical" /\ ~syncState'.isComplete
                    THEN "histLoop" ELSE "live"
        \* getBlockNumberByHash of a hash the chain no longer has: either
        \* it throws and the callback ends, or it yields no number and the
        \* gap compares false
        \/ /\ last # Undefined /\ ~IsOnChain(last)
           /\ \/ /\ syncState' = [syncState EXCEPT !.targetBlock = tip]
                 /\ pc' = "failed"
              \/ /\ syncState' = initializeSyncState(last, FALSE)
                 /\ pc' = "live"
  /\ rewindFrom' = NoRewind
  /\ UNCHANGED <<chainVars, storeVars, transactionsUnderProcessing,
                 cursorTransaction, loopVars, histAll,
                 unresolvableTransactionStatus, bestKnownValid, addLog,
                 events, restarts>>
  /\ UNCHANGED clientVars

\* The flag is tested by the loop condition of performHistoricalSync and by
\* the finally block of processTransactions; a stop at any other moment is
\* seen at the next of these.  (A stop made before the queued callback has
\* run is the exception: the callback sets the flag again; StopSpec has it.)
StopObserved == pc \in {"histLoop", "read", "sweepWait"}

\* Observer.stopPeriodicProcessing
StopPeriodicProcessing ==
  /\ StopObserved
  /\ continuePeriodicProcessing
  /\ continuePeriodicProcessing' = FALSE
  /\ UNCHANGED <<chainVars, storeVars, pc, syncState,
                 transactionsUnderProcessing, cursorTransaction, loopVars,
                 histAll, unresolvableTransactionStatus, bestKnownValid,
                 addLog, events, restarts, rewindFrom>>
  /\ UNCHANGED clientVars

\* the process dies (power outage) and a new Observer is constructed over
\* the same stores
Crash ==
  /\ restarts < MaxRestarts
  /\ pc # "constructed"
  /\ restarts' = restarts + 1
  /\ Constructed
  /\ UNCHANGED <<chainVars, storeVars, addLog, rewindFrom>>
  /\ UNCHANGED clientVars

\* --------------------------------------------------------- historical sync
\* the batch end without the clamp to the target block
batchEndPastTarget(batchStartBlock) == batchStartBlock + batchSize

\* Observer.performHistoricalSync: Math.min of the batch end
\* the batch end of a batch of no block
batchEndAtStart(batchStartBlock) == batchStartBlock

batchEnd(batchStartBlock) ==
  Min(batchStartBlock + batchSize, syncState.targetBlock)

\* Observer.processHistoricalBatch, when its _getTransactions returns: an
\* empty range returns at once and the caller advances lastSyncedBlock,
\* otherwise the rounds of the for loop follow
BatchFetched ==
  LET batchStartBlock == syncState.lastSyncedBlock
      batchEndOfBatch == batchEnd(batchStartBlock)
      sortedTransactions ==
        SortByTransactionNumber(getTransactions(batchStartBlock, batchEndOfBatch))
  IN /\ IF sortedTransactions = <<>>
        THEN /\ syncState' = [syncState EXCEPT !.lastSyncedBlock = batchEndOfBatch]
             /\ pc' = "histLoop"
             /\ UNCHANGED <<batch, batchEndBlock>>
        ELSE /\ batch' = sortedTransactions
             /\ batchEndBlock' = batchEndOfBatch
             /\ pc' = "histTx"
             /\ UNCHANGED syncState
     /\ failedAttempts' = 0
     /\ retryCount' = 0

\* Observer.performHistoricalSync: the loop condition and, when it holds,
\* the first attempt at the batch; a throw of _getTransactions enters the
\* catch block, which sets retryCount to 0
PerformHistoricalSync ==
  /\ pc = "histLoop"
  /\ IF syncState.lastSyncedBlock < syncState.targetBlock
        /\ continuePeriodicProcessing
     THEN \/ BatchFetched
          \/ /\ failedAttempts < MaxFetchFailures
             /\ failedAttempts' = failedAttempts + 1
             /\ retryCount' = 0
             /\ pc' = "histRetry"
             /\ UNCHANGED <<syncState, batch, batchEndBlock>>
     ELSE /\ syncState' = [syncState EXCEPT !.isComplete = TRUE, !.phase = "live"]
          /\ pc' = "live"
          /\ UNCHANGED <<batch, batchEndBlock, retryCount, failedAttempts>>
  /\ UNCHANGED <<chainVars, storeVars, continuePeriodicProcessing,
                 transactionsUnderProcessing, cursorTransaction, loopVars,
                 historicalEntry, batchSize, maxRetries,
                 unresolvableTransactionStatus, bestKnownValid, addLog,
                 events, restarts, rewindFrom>>
  /\ UNCHANGED clientVars

\* Observer.performHistoricalSync, the retry loop of the catch block: one
\* test of its condition and, when it holds, one more attempt at the same
\* batch. When the condition fails the catch block ends without a throw
\* and the outer loop tests its condition again.
RetryHistoricalBatch ==
  /\ pc = "histRetry"
  /\ IF retryCount < maxRetries
     THEN \/ BatchFetched
          \/ /\ failedAttempts < MaxFetchFailures
             /\ failedAttempts' = failedAttempts + 1
             /\ retryCount' = retryCount + 1
             /\ pc' = IF retryCount' >= maxRetries THEN "failed" ELSE "histRetry"
             /\ UNCHANGED <<syncState, batch, batchEndBlock>>
     ELSE /\ pc' = "histLoop"
          /\ UNCHANGED <<syncState, batch, batchEndBlock, retryCount,
                         failedAttempts>>
  /\ UNCHANGED <<chainVars, storeVars, continuePeriodicProcessing,
                 transactionsUnderProcessing, cursorTransaction, loopVars,
                 historicalEntry, batchSize, maxRetries,
                 unresolvableTransactionStatus, bestKnownValid, addLog,
                 events, restarts, rewindFrom>>
  /\ UNCHANGED clientVars

\* Observer.processHistoricalBatch: a round of its for loop up to the return
\* of the awaited processTransaction
ProcessHistoricalTransaction ==
  /\ pc = "histTx"
  /\ LET transaction == Head(batch)
     IN \E outcome \in Outcomes :
        \E removal \in removalsAfterProcessing(outcome) :
          /\ opStore' \in processorWrites(opStore, transaction, outcome)
          /\ unresStore' =
               unresolvableAfterProcessing(unresStore, transaction, removal)
          /\ historicalEntry' =
               [transaction |-> transaction,
                processingStatus |-> statusAfterProcessing(outcome, removal),
                outcome |-> outcome, removal |-> removal, first |-> FALSE]
  /\ pc' = "histStore"
  /\ UNCHANGED <<chainVars, txStore, continuePeriodicProcessing, syncState,
                 transactionsUnderProcessing, cursorTransaction, loopVars,
                 histVars, unresolvableTransactionStatus, bestKnownValid,
                 addLog, events, restarts, rewindFrom>>
  /\ UNCHANGED clientVars

\* Observer.processHistoricalBatch: the rest of the round, and the advance
\* of lastSyncedBlock after the last round
StoreHistoricalTransaction ==
  /\ pc = "histStore"
  /\ IF historicalEntry.processingStatus = Processed
     THEN \/ /\ txStore' = addTransaction(txStore, historicalEntry.transaction)
             /\ addLog' = logAll(addLog, <<historicalEntry>>)
             /\ UNCHANGED unresStore
          \* addTransaction throws: the catch records the attempt
          \/ /\ unresStore' = recordUnresolvableTransactionFetchAttempt(
                                unresStore, historicalEntry.transaction)
             /\ UNCHANGED <<txStore, addLog>>
     ELSE UNCHANGED <<txStore, addLog, unresStore>>
  /\ batch' = Tail(batch)
  /\ historicalEntry' = NoEntry
  /\ IF batch' = <<>>
     THEN /\ syncState' = [syncState EXCEPT !.lastSyncedBlock = batchEndBlock]
          /\ pc' = "histLoop"
     ELSE /\ pc' = "histTx"
          /\ UNCHANGED syncState
  /\ UNCHANGED <<chainVars, opStore, continuePeriodicProcessing,
                 transactionsUnderProcessing, cursorTransaction, loopVars,
                 batchEndBlock, batchSize, maxRetries, retryCount,
                 failedAttempts,
                 unresolvableTransactionStatus, bestKnownValid,
                 events, restarts, rewindFrom>>
  /\ UNCHANGED clientVars

\* --------------------------------------------------------------- live loop
\* Observer.processTransactions, entry: the consolidation before the loop
ProcessTransactions ==
  /\ pc = "live"
  /\ storeThenTrim
  /\ moreTransactions' = FALSE
  /\ events' = <<>>
  /\ pc' = "read"
  /\ UNCHANGED <<chainVars, opStore, unresStore, continuePeriodicProcessing,
                 syncState, cursorTransaction,
                 invalidTransactionNumberOrTimeHash,
                 blockReorganizationDetected, histAll,
                 unresolvableTransactionStatus, bestKnownValid,
                 restarts, rewindFrom>>
  /\ UNCHANGED clientVars

\* the reorg test with a strict comparison of the times
reorgDetectedStrictly(invalid, cursorTransactionTime, latestBlockchainTime) ==
  invalid /\ cursorTransactionTime < latestBlockchainTime

\* the reorg test without the comparison of the times
reorgDetectedOnInvalid(invalid, cursorTransactionTime, latestBlockchainTime) ==
  invalid

\* the reorg test of Observer.processTransactions
reorgDetected(invalid, cursorTransactionTime, latestBlockchainTime) ==
  invalid /\ cursorTransactionTime <= latestBlockchainTime

\* Observer.processTransactions, loop body up to the first wait: the cursor
\* is fetched, the chain is read, the admitted records are queued and
\* their processing is started, the reorg test is made
ReadAndAdmit ==
  /\ pc = "read"
  /\ LET cursor == getLastTransaction(txStore)
         invalid == readIsInvalid(cursor)
         transactions == IF invalid THEN <<>> ELSE readTransactions(cursor)
         qualified == SortByTransactionNumber(qualifiedTransactions(transactions))
         detected == reorgDetected(invalid, cursor.transactionTime, tip)
     IN /\ invalidTransactionNumberOrTimeHash' = invalid
        /\ cursorTransaction' = IF Len(transactions) > 0
                                THEN transactions[Len(transactions)]
                                ELSE cursor
        /\ Len(transactionsUnderProcessing) + Len(qualified)
             <= MaxUnderProcessing
        /\ transactionsUnderProcessing' =
             transactionsUnderProcessing \o newEntries(qualified, TRUE)
        /\ blockReorganizationDetected' = detected
        /\ \E more \in BOOLEAN :
             moreTransactions' = IF detected THEN TRUE
                                 ELSE IF invalid THEN FALSE ELSE more
        /\ events' = IF detected
                     THEN Append(events, "observer_block_reorganization")
                     ELSE events
        /\ pc' = IF detected THEN "quiesce" ELSE "backpressure"
  /\ UNCHANGED <<chainVars, storeVars, continuePeriodicProcessing, syncState,
                 histAll, unresolvableTransactionStatus, bestKnownValid,
                 addLog, restarts, rewindFrom>>
  /\ UNCHANGED clientVars

\* ReadAndAdmit with ZksyncLedger as the chain client: its read never
\* throws the InvalidTransactionNumberOrTimeHash signal
ZksyncReadAndAdmit ==
  /\ pc = "read"
  /\ LET cursor == getLastTransaction(txStore)
         readResult == zksyncRead(cursor)
         transactions == readResult.transactions
         qualified == SortByTransactionNumber(qualifiedTransactions(transactions))
     IN /\ invalidTransactionNumberOrTimeHash' = readResult.invalid
        /\ cursorTransaction' = IF Len(transactions) > 0
                                THEN transactions[Len(transactions)]
                                ELSE cursor
        /\ Len(transactionsUnderProcessing) + Len(qualified)
             <= MaxUnderProcessing
        /\ transactionsUnderProcessing' =
             transactionsUnderProcessing \o newEntries(qualified, TRUE)
        /\ blockReorganizationDetected' = FALSE
        /\ moreTransactions' = readResult.moreTransactions
        /\ events' = events
        /\ pc' = "backpressure"
  /\ UNCHANGED <<chainVars, storeVars, continuePeriodicProcessing, syncState,
                 histAll, unresolvableTransactionStatus, bestKnownValid,
                 addLog, restarts, rewindFrom>>
  /\ UNCHANGED clientVars

\* the throw of the chain read or of the cursor fetch caught without the
\* failure event
ReadFailsWithoutEvent ==
  /\ pc = "read"
  /\ cursorTransaction' = getLastTransaction(txStore)
  /\ pc' = afterIteration
  /\ UNCHANGED <<chainVars, storeVars, continuePeriodicProcessing, syncState,
                 transactionsUnderProcessing, loopVars, histAll,
                 unresolvableTransactionStatus, bestKnownValid, addLog,
                 events, restarts, rewindFrom>>
  /\ UNCHANGED clientVars

\* the chain read or the cursor fetch throws something else than the
\* InvalidCursor signal: the catch and finally blocks of processTransactions
ReadFails ==
  /\ pc = "read"
  /\ cursorTransaction' = getLastTransaction(txStore)
  /\ events' = Append(events, "observer_loop_failure")
  /\ pc' = afterIteration
  /\ UNCHANGED <<chainVars, storeVars, continuePeriodicProcessing, syncState,
                 transactionsUnderProcessing, loopVars, histAll,
                 unresolvableTransactionStatus, bestKnownValid, addLog,
                 restarts, rewindFrom>>
  /\ UNCHANGED clientVars

\* The status a task leaves in its entry is looked at by the consolidation
\* and by the waits; a task that ends at any other moment is seen at the
\* next of these.
TaskObserved == pc \in {"live", "backpressure", "quiesce", "fence"}

\* Observer.processTransaction, run as a task that is not awaited, for the
\* i-th entry under processing
ProcessTransaction(i) ==
  /\ TaskObserved
  /\ i \in 1..Len(transactionsUnderProcessing)
  /\ transactionsUnderProcessing[i].processingStatus = Processing
  /\ LET transaction == transactionsUnderProcessing[i].transaction
     IN \E outcome \in Outcomes :
        \E removal \in removalsAfterProcessing(outcome) :
          /\ opStore' \in processorWrites(opStore, transaction, outcome)
          /\ unresStore' =
               unresolvableAfterProcessing(unresStore, transaction, removal)
          /\ transactionsUnderProcessing' =
               [transactionsUnderProcessing EXCEPT
                  ![i].processingStatus =
                    statusAfterProcessing(outcome, removal),
                  ![i].outcome = outcome,
                  ![i].removal = removal]
  /\ UNCHANGED <<chainVars, txStore, pc, continuePeriodicProcessing,
                 syncState, cursorTransaction, loopVars, histAll,
                 unresolvableTransactionStatus, bestKnownValid, addLog,
                 events, restarts, rewindFrom>>
  /\ UNCHANGED clientVars

\* Observer.processTransactions, else branch: the backpressure wait is
\* over, the processed prefix is consolidated and the error fence is tested
Backpressure ==
  /\ pc = "backpressure"
  /\ waitUntilCountOfTransactionsUnderProcessingIsLessOrEqualTo(
       transactionsUnderProcessing, maxConcurrentDownloads)
  /\ storeThenTrim
  /\ pc' = IF hasErrorInTransactionProcessing(transactionsUnderProcessing')
           THEN "fence" ELSE afterLoopBody(moreTransactions)
  /\ UNCHANGED <<chainVars, opStore, unresStore, continuePeriodicProcessing,
                 syncState, cursorTransaction, loopVars, histAll,
                 unresolvableTransactionStatus, bestKnownValid, events, restarts, rewindFrom>>
  /\ UNCHANGED clientVars

\* the backpressure wait lasting until every task has ended
BackpressureAfterTasks ==
  /\ Backpressure
  /\ transactionsUnderProcessing' = <<>>

\* Observer.processTransactions: the wait for no entry in Processing status
\* is over and the processed prefix is consolidated; then, on a reorg, the
\* probe of revertInvalidTransactions, and in the error fence, the reset of
\* the entries and of the cursor
Quiesce ==
  /\ pc \in {"quiesce", "fence"}
  /\ waitUntilCountOfTransactionsUnderProcessingIsLessOrEqualTo(
       transactionsUnderProcessing, 0)
  /\ IF pc = "quiesce"
     THEN /\ storeThenTrim
          /\ \E best \in getFirstValidTransaction(
                           getExponentiallySpacedTransactions(txStore')) :
               /\ bestKnownValid' = IF best = Undefined THEN NoNumber
                                    ELSE best.transactionNumber
               /\ rewindFrom' = [active |-> TRUE, valid |-> bestKnownValid',
                                 store |-> txStore']
          /\ pc' = "revertOperations"
          /\ UNCHANGED cursorTransaction
     ELSE /\ txStore' = addAll(txStore,
               SubSeq(transactionsUnderProcessing, 1,
                      consecutiveProcessed(transactionsUnderProcessing, 0)))
          /\ addLog' = logAll(addLog,
               SubSeq(transactionsUnderProcessing, 1,
                      consecutiveProcessed(transactionsUnderProcessing, 0)))
          /\ transactionsUnderProcessing' = <<>>
          /\ cursorTransaction' = Undefined
          /\ pc' = afterLoopBody(moreTransactions)
          /\ UNCHANGED <<bestKnownValid, rewindFrom>>
  /\ UNCHANGED <<chainVars, opStore, unresStore, continuePeriodicProcessing,
                 syncState, loopVars, histAll,
                 unresolvableTransactionStatus, events, restarts>>
  /\ UNCHANGED clientVars

\* the rewind without the deletion of the operations
RevertWithoutOperations ==
  /\ pc = "revertOperations"
  /\ pc' = "revertUnresolvables"
  /\ UNCHANGED <<chainVars, storeVars, continuePeriodicProcessing,
                 syncState, transactionsUnderProcessing, cursorTransaction,
                 loopVars, histAll, unresolvableTransactionStatus,
                 bestKnownValid, addLog, events, restarts, rewindFrom>>
  /\ UNCHANGED clientVars

\* Observer.revertInvalidTransactions: operationStore.delete
RevertOperations ==
  /\ pc = "revertOperations"
  /\ opStore' = operationStoreDelete(opStore, bestKnownValid)
  /\ pc' = "revertUnresolvables"
  /\ UNCHANGED <<chainVars, txStore, unresStore, continuePeriodicProcessing,
                 syncState, transactionsUnderProcessing, cursorTransaction,
                 loopVars, histAll, unresolvableTransactionStatus,
                 bestKnownValid, addLog, events, restarts, rewindFrom>>
  /\ UNCHANGED clientVars

\* the rewind with the transactions deleted before the unresolvables
RevertTransactionsFirst ==
  /\ pc = "revertUnresolvables"
  /\ txStore' = removeTransactionsLaterThan(txStore, bestKnownValid)
  /\ pc' = "revertTransactions"
  /\ UNCHANGED <<chainVars, opStore, unresStore, continuePeriodicProcessing,
                 syncState, transactionsUnderProcessing, cursorTransaction,
                 loopVars, histAll, unresolvableTransactionStatus,
                 bestKnownValid, addLog, events, restarts, rewindFrom>>
  /\ UNCHANGED clientVars

\* Observer.revertInvalidTransactions: removeUnresolvableTransactionsLaterThan
RevertUnresolvables ==
  /\ pc = "revertUnresolvables"
  /\ unresStore' = removeUnresolvableTransactionsLaterThan(unresStore, bestKnownValid)
  /\ pc' = "revertTransactions"
  /\ UNCHANGED <<chainVars, txStore, opStore, continuePeriodicProcessing,
                 syncState, transactionsUnderProcessing, cursorTransaction,
                 loopVars, histAll, unresolvableTransactionStatus,
                 bestKnownValid, addLog, events, restarts, rewindFrom>>
  /\ UNCHANGED clientVars

\* the rewind that leaves the transaction store as it is
RevertTransactionsKeepsStore ==
  /\ pc = "revertTransactions"
  /\ pc' = "reverted"
  /\ UNCHANGED <<chainVars, storeVars, continuePeriodicProcessing,
                 syncState, transactionsUnderProcessing, cursorTransaction,
                 loopVars, histAll, unresolvableTransactionStatus,
                 bestKnownValid, addLog, events, restarts, rewindFrom>>
  /\ UNCHANGED clientVars

\* Observer.revertInvalidTransactions: removeTransactionsLaterThan
RevertTransactions ==
  /\ pc = "revertTransactions"
  /\ txStore' = removeTransactionsLaterThan(txStore, bestKnownValid)
  /\ pc' = "reverted"
  /\ UNCHANGED <<chainVars, opStore, unresStore, continuePeriodicProcessing,
                 syncState, transactionsUnderProcessing, cursorTransaction,
                 loopVars, histAll, unresolvableTransactionStatus,
                 bestKnownValid, addLog, events, restarts, rewindFrom>>
  /\ UNCHANGED clientVars

\* Observer.processTransactions: the rewind has returned, the cursor is
\* cleared and the loop condition is tested
Reverted ==
  /\ pc = "reverted"
  /\ cursorTransaction' = Undefined
  /\ rewindFrom' = NoRewind
  /\ pc' = afterLoopBody(moreTransactions)
  /\ UNCHANGED <<chainVars, storeVars, continuePeriodicProcessing, syncState,
                 transactionsUnderProcessing, loopVars, histAll,
                 unresolvableTransactionStatus, bestKnownValid, addLog,
                 events, restarts>>
  /\ UNCHANGED clientVars

\* Observer.processUnresolvableTransactions: the records due for retry are
\* fetched and their processing is started
ProcessUnresolvableTransactions ==
  /\ pc = "sweep"
  /\ \E due \in SUBSET unresStore :
       unresolvableTransactionStatus' =
         newEntries(SortByTransactionNumber(NewestFirst(due)), TRUE)
  /\ pc' = "sweepWait"
  /\ UNCHANGED <<chainVars, storeVars, continuePeriodicProcessing, syncState,
                 transactionsUnderProcessing, cursorTransaction, loopVars,
                 histAll, bestKnownValid, addLog, events, restarts,
                 rewindFrom>>
  /\ UNCHANGED clientVars

\* Observer.processTransaction, run as a task for the i-th record of the
\* unresolvable sweep
ProcessUnresolvable(i) ==
  /\ i \in 1..Len(unresolvableTransactionStatus)
  /\ unresolvableTransactionStatus[i].processingStatus = Processing
  /\ LET transaction == unresolvableTransactionStatus[i].transaction
     IN \E outcome \in Outcomes :
        \E removal \in removalsAfterProcessing(outcome) :
          /\ opStore' \in processorWrites(opStore, transaction, outcome)
          /\ unresStore' =
               unresolvableAfterProcessing(unresStore, transaction, removal)
          /\ unresolvableTransactionStatus' =
               [unresolvableTransactionStatus EXCEPT
                  ![i].processingStatus =
                    statusAfterProcessing(outcome, removal),
                  ![i].outcome = outcome,
                  ![i].removal = removal]
  /\ UNCHANGED <<chainVars, txStore, pc, continuePeriodicProcessing,
                 syncState, transactionsUnderProcessing, cursorTransaction,
                 loopVars, histAll, bestKnownValid, addLog, events,
                 restarts, rewindFrom>>
  /\ UNCHANGED clientVars

\* the success event emitted without the wait for the sweep's tasks
LoopSuccessWithoutWait ==
  /\ pc = "sweepWait"
  /\ unresolvableTransactionStatus' = <<>>
  /\ events' = Append(events, "observer_loop_success")
  /\ pc' = afterIteration
  /\ UNCHANGED <<chainVars, storeVars, continuePeriodicProcessing, syncState,
                 transactionsUnderProcessing, cursorTransaction, loopVars,
                 histAll, bestKnownValid, addLog, restarts,
                 rewindFrom>>
  /\ UNCHANGED clientVars

\* Observer.processTransactions: the sweep has drained, the success event is
\* emitted and the finally block schedules the next iteration
LoopSuccess ==
  /\ pc = "sweepWait"
  /\ waitUntilCountOfTransactionsUnderProcessingIsLessOrEqualTo(
       unresolvableTransactionStatus, 0)
  /\ unresolvableTransactionStatus' = <<>>
  /\ events' = Append(events, "observer_loop_success")
  /\ pc' = afterIteration
  /\ UNCHANGED <<chainVars, storeVars, continuePeriodicProcessing, syncState,
                 transactionsUnderProcessing, cursorTransaction, loopVars,
                 histAll, bestKnownValid, addLog, restarts,
                 rewindFrom>>
  /\ UNCHANGED clientVars

\* the timer set by the finally block fires
NextIteration ==
  /\ pc = "idle"
  /\ pc' = "live"
  /\ UNCHANGED <<chainVars, storeVars, continuePeriodicProcessing, syncState,
                 transactionsUnderProcessing, cursorTransaction, loopVars,
                 histAll, unresolvableTransactionStatus, bestKnownValid,
                 addLog, events, restarts, rewindFrom>>
  /\ UNCHANGED clientVars

Next ==
  \/ Mine
  \/ Reorg
  \/ StartPeriodicProcessing
  \/ DeferredCallback
  \/ StopPeriodicProcessing
  \/ Crash
  \/ PerformHistoricalSync
  \/ RetryHistoricalBatch
  \/ ProcessHistoricalTransaction
  \/ StoreHistoricalTransaction
  \/ ProcessTransactions
  \/ ReadAndAdmit
  \/ ReadFails
  \/ \E i \in 1..Len(transactionsUnderProcessing) : ProcessTransaction(i)
  \/ Backpressure
  \/ Quiesce
  \/ RevertOperations
  \/ RevertUnresolvables
  \/ RevertTransactions
  \/ Reverted
  \/ ProcessUnresolvableTransactions
  \/ \E i \in 1..Len(unresolvableTransactionStatus) : ProcessUnresolvable(i)
  \/ LoopSuccess
  \/ NextIteration

Spec == Init /\ [][Next]_vars

\* ------------------------------------------------ the historical sync alone
\* The runs of an Observer up to the end of its historical sync, over a
\* longer chain and under every retry configuration: the start, the
\* historical loop with its retries, the stop and the crash.
HistoricalInit ==
  /\ FirstConstruction
  /\ batchSize \in 1..MaxBatchSize
  /\ maxRetries \in 0..MaxRetries
  /\ paginationConfig = DefaultPaginationConfig

MineHistorical == MineUpTo(MaxHistoricalBlock)

HistoricalNext ==
  \/ MineHistorical
  \/ Reorg
  \/ StartPeriodicProcessing
  \/ DeferredCallback
  \/ StopPeriodicProcessing
  \/ Crash
  \/ PerformHistoricalSync
  \/ RetryHistoricalBatch
  \/ ProcessHistoricalTransaction
  \/ StoreHistoricalTransaction

HistoricalSpec == HistoricalInit /\ [][HistoricalNext]_vars

\* ------------------------------------- the historical sync that is left alone
\* Observer.updateHistoricalSyncConfig with a batch size of at least one
UpdateHistoricalSyncConfig ==
  /\ pc \in {"histLoop", "histRetry"}
  /\ \E size \in 1..MaxBatchSize, retries \in 0..MaxRetries :
       /\ <<size, retries>> # <<batchSize, maxRetries>>
       /\ batchSize' = size
       /\ maxRetries' = retries
  /\ UNCHANGED <<chainVars, storeVars, pc, continuePeriodicProcessing,
                 syncState, transactionsUnderProcessing, cursorTransaction,
                 loopVars, historicalEntry, batch, batchEndBlock, retryCount,
                 failedAttempts, unresolvableTransactionStatus,
                 bestKnownValid, addLog, events, restarts, rewindFrom>>
  /\ UNCHANGED clientVars

\* The runs of the historical sync with no stop and no crash.  The chain
\* grows on its own; every step of the observer is a continuation the event
\* loop runs, so it is weakly fair.
HistoricalFairNext ==
  \/ MineHistorical
  \/ StartPeriodicProcessing
  \/ DeferredCallback
  \/ UpdateHistoricalSyncConfig
  \/ PerformHistoricalSync
  \/ RetryHistoricalBatch
  \/ ProcessHistoricalTransaction
  \/ StoreHistoricalTransaction

HistoricalFairness ==
  /\ WF_vars(StartPeriodicProcessing)
  /\ WF_vars(DeferredCallback)
  /\ WF_vars(PerformHistoricalSync)
  /\ WF_vars(RetryHistoricalBatch)
  /\ WF_vars(ProcessHistoricalTransaction)
  /\ WF_vars(StoreHistoricalTransaction)

HistoricalFairSpec ==
  HistoricalInit /\ [][HistoricalFairNext]_vars /\ HistoricalFairness

\* ------------------------------------- the observer over the zkSync ledger
\* The runs of an Observer whose chain client is ZksyncLedger, on a chain
\* that does not reorganize, with no stop, no crash and no throw in the
\* live loop, and with processing tasks that end within the backpressure
\* wait.  Every continuation that is ready is run by the event loop, so
\* each step of the observer is weakly fair; the chain is not.
ZksyncNext ==
  \/ Mine
  \/ StartPeriodicProcessing
  \/ DeferredCallback
  \/ PerformHistoricalSync
  \/ RetryHistoricalBatch
  \/ ProcessHistoricalTransaction
  \/ StoreHistoricalTransaction
  \/ ProcessTransactions
  \/ ZksyncReadAndAdmit
  \/ \E i \in 1..Len(transactionsUnderProcessing) : ProcessTransaction(i)
  \/ BackpressureAfterTasks
  \/ ProcessUnresolvableTransactions
  \/ \E i \in 1..Len(unresolvableTransactionStatus) : ProcessUnresolvable(i)
  \/ LoopSuccess
  \/ NextIteration

ZksyncFairness ==
  /\ WF_vars(StartPeriodicProcessing)
  /\ WF_vars(DeferredCallback)
  /\ WF_vars(PerformHistoricalSync)
  /\ WF_vars(RetryHistoricalBatch)
  /\ WF_vars(ProcessHistoricalTransaction)
  /\ WF_vars(StoreHistoricalTransaction)
  /\ WF_vars(ProcessTransactions)
  /\ WF_vars(ZksyncReadAndAdmit)
  /\ WF_vars(\E i \in 1..Len(transactionsUnderProcessing) :
               ProcessTransaction(i))
  /\ WF_vars(BackpressureAfterTasks)
  /\ WF_vars(ProcessUnresolvableTransactions)
  /\ WF_vars(\E i \in 1..Len(unresolvableTransactionStatus) :
               ProcessUnresolvable(i))
  /\ WF_vars(LoopSuccess)
  /\ WF_vars(NextIteration)

ZksyncSpec == Init /\ [][ZksyncNext]_vars /\ ZksyncFairness

\* the same observer on a chain that may reorganize
ZksyncReorgNext ==
  \/ ZksyncNext
  \/ Reorg

ZksyncReorgSpec == Init /\ [][ZksyncReorgNext]_vars /\ ZksyncFairness

\* ------------------------------------------- the live loop and full blocks
\* The runs of an Observer started over an empty chain and an empty store,
\* whose blocks, mined while the live loop runs, may hold more anchors than
\* the throughput limiter admits at once; no reorg, no stop, no crash and
\* no throw.
LimiterNext ==
  \/ MineFullBlock
  \/ StartPeriodicProcessing
  \/ DeferredCallback
  \/ PerformHistoricalSync
  \/ ProcessTransactions
  \/ ReadAndAdmit
  \/ \E i \in 1..Len(transactionsUnderProcessing) : ProcessTransaction(i)
  \/ Backpressure
  \/ ProcessUnresolvableTransactions
  \/ LoopSuccess
  \/ NextIteration

LimiterSpec == Init /\ [][LimiterNext]_vars

\* the observer, its stores and its chain
observerWorld == <<chainVars, storeVars, observerVars, addLog, restarts,
                   rewindFrom>>

\* ------------------------------------------------- the CAS client on its own
\* CasIpfs.read, called with some address while ipfs.get does what it may
CasIpfsRead ==
  /\ \E response \in Responses :
       /\ ipfsResponse' = response
       /\ fetchResult' = casRead(response)
  /\ UNCHANGED <<observerWorld, anchorVars, paginationVars, searchVars,
                 scanVars,
                 monitorVars,
                 stopVars,
                 serviceVars>>

CasNext ==
  \/ CasIpfsRead

CasSpec == Init /\ [][CasNext]_vars

\* --------------------------------------------- the anchor encoding on its own
\* the hashes an Anchor event may carry
Hashes == [1..HashBytes -> 0..255]

\* the contract emits an Anchor event
AnchorEmitted ==
  /\ anchorLog = NoLog
  /\ \E hash \in Hashes, numberOfOperations \in 0..MaxOperations :
       anchorLog' = [anchorFileHash |-> <<"0", "x">> \o toHex(hash),
                     numberOfOperations |-> toDecimal(numberOfOperations)]
  /\ UNCHANGED <<observerWorld, casVars, paginationVars, searchVars, scanVars,
                 monitorVars,
                 stopVars,
                 serviceVars,
                 anchorString, anchorWritten>>

\* utils.eventLogToSidetreeTransaction on the event
EventLogToSidetreeTransaction ==
  /\ anchorLog # NoLog
  /\ anchorString = <<>>
  /\ anchorString' = eventLogToAnchorString(anchorLog)
  /\ UNCHANGED <<observerWorld, casVars, paginationVars, searchVars, scanVars,
                 monitorVars,
                 stopVars,
                 serviceVars,
                 anchorLog, anchorWritten>>

\* ZksyncLedger.write of the decoded anchor string
LedgerWrite ==
  /\ anchorString # <<>>
  /\ anchorWritten = NoLog
  /\ anchorWritten' = anchorHashArguments(anchorString)
  /\ UNCHANGED <<observerWorld, casVars, paginationVars, searchVars, scanVars,
                 monitorVars,
                 stopVars,
                 serviceVars,
                 anchorLog, anchorString>>

AnchorNext ==
  \/ AnchorEmitted
  \/ EventLogToSidetreeTransaction
  \/ LedgerWrite

AnchorSpec == Init /\ [][AnchorNext]_vars

\* ------------------------------------------- the pagination config on its own
\* the ZksyncLedger constructor, with or without a paginationConfig argument
PaginationInit ==
  /\ FirstConstruction
  /\ batchSize = historicalBatchSize
  /\ maxRetries = defaultMaxRetries
  /\ \/ paginationConfig = DefaultPaginationConfig
     \/ \E config \in PartialPaginationConfigs :
          paginationConfig = mergePaginationConfig(DefaultPaginationConfig,
                                                   config)

\* ZksyncLedger.updatePaginationConfig
UpdatePaginationConfig ==
  /\ \E config \in PartialPaginationConfigs :
       paginationConfig' = mergePaginationConfig(paginationConfig, config)
  /\ UNCHANGED <<observerWorld, casVars, anchorVars, searchVars, scanVars,
                 monitorVars,
                 stopVars,
                 serviceVars>>

PaginationNext ==
  \/ UpdatePaginationConfig

PaginationSpec == PaginationInit /\ [][PaginationNext]_vars

\* ------------------------------------- the deployment-block search on its own
\* getContractDeploymentBlock is called on a ledger without a contract
\* address: 0 is returned
SearchWithoutAddress ==
  /\ search.phase = "idle"
  /\ search' = [NoSearch EXCEPT !.phase = "returned"]
  /\ \E code \in SUBSET (0..MaxSearchBlock) : contractCode' = code
  /\ UNCHANGED <<observerWorld, casVars, anchorVars, paginationVars, scanVars,
                 monitorVars,
                 stopVars,
                 serviceVars>>

\* getContractDeploymentBlock is called: getBlockNumber answers and the
\* bounds of the binary search are set
SearchStarts ==
  /\ search.phase = "idle"
  /\ \E latestBlock \in 0..MaxSearchBlock, code \in SUBSET (0..MaxSearchBlock) :
       /\ contractCode' = code
       /\ search' = [NoSearch EXCEPT !.phase = "loop",
                                     !.latestBlock = latestBlock,
                                     !.high = latestBlock]
  /\ UNCHANGED <<observerWorld, casVars, anchorVars, paginationVars, scanVars,
                 monitorVars,
                 stopVars,
                 serviceVars>>

\* one round of the while loop: getCode at the middle height
SearchStep ==
  /\ search.phase = "loop"
  /\ search.low < search.high
  /\ LET mid == midOf(search.low, search.high)
     IN search' = IF mid \notin contractCode
                  THEN [search EXCEPT !.low = mid + 1]
                  ELSE [search EXCEPT !.high = mid]
  /\ UNCHANGED <<observerWorld, casVars, anchorVars, paginationVars, scanVars,
                 monitorVars,
                 stopVars,
                 serviceVars,
                 contractCode>>

\* the loop condition fails: low is returned
SearchReturns ==
  /\ search.phase = "loop"
  /\ ~(search.low < search.high)
  /\ search' = [search EXCEPT !.phase = "returned", !.result = search.low]
  /\ UNCHANGED <<observerWorld, casVars, anchorVars, paginationVars, scanVars,
                 monitorVars,
                 stopVars,
                 serviceVars,
                 contractCode>>

\* getBlockNumber or getCode throws: the catch block returns 0
SearchFails ==
  /\ \/ search.phase = "idle" /\ \E code \in SUBSET (0..MaxSearchBlock) :
                                    contractCode' = code
     \/ search.phase = "loop" /\ search.low < search.high
                              /\ UNCHANGED contractCode
  /\ search' = [search EXCEPT !.phase = "returned", !.failed = TRUE,
                              !.result = 0]
  /\ UNCHANGED <<observerWorld, casVars, anchorVars, paginationVars, scanVars,
                 monitorVars,
                 stopVars,
                 serviceVars>>

SearchNext ==
  \/ SearchWithoutAddress
  \/ SearchStarts
  \/ SearchStep
  \/ SearchReturns
  \/ SearchFails

SearchSpec == Init /\ [][SearchNext]_vars

\* ----------------------------------- the read after a number only, on its own
\* everything but the chain, the pagination config and the scan
outsideScan == <<storeVars, observerVars, addLog, restarts, rewindFrom,
                 casVars, anchorVars, searchVars,
                 monitorVars,
                 stopVars,
                 serviceVars>>

\* a block is mined, with up to MaxAnchorsPerBlock anchors, while no read runs
LedgerMine ==
  /\ scan.phase \in {"idle", "returned", "threw"}
  /\ tip < MaxBlock
  /\ tip' = tip + 1
  /\ \E count \in 0..MaxAnchorsPerBlock :
       anchors' = anchors \o AnchorsOfBlock(tip + 1, Len(anchors), count)
  /\ UNCHANGED <<epoch, outsideScan, paginationVars, scanVars>>

\* updatePaginationConfig is called between two reads
ScanConfigUpdate ==
  /\ scan.phase \in {"idle", "returned", "threw"}
  /\ UpdatePaginationConfig

\* read(sinceTransactionNumber): getBlockNumber answers and the locals of
\* getTransactionsAfterTransactionNumber are set
ReadAfterNumber ==
  /\ scan.phase \in {"idle", "returned", "threw"}
  /\ \E since \in 0..Len(anchors) :
       scan' = [NoScan EXCEPT !.phase = "loop",
                              !.since = since,
                              !.batchSize = paginationConfig.defaultBatchSize,
                              !.currentBlock = tip]
  /\ UNCHANGED <<chainVars, outsideScan, paginationVars>>

\* the loop condition holds: the window is fetched
ScanFetch ==
  /\ scan.phase = "loop"
  /\ scanContinues(scan)
  /\ LET fromBlock == Max(0, scan.currentBlock - scan.batchSize)
     IN scan' = [scan EXCEPT !.phase = "filter",
                             !.fromBlock = fromBlock,
                             !.batchTransactions =
                               getTransactions(fromBlock, scan.currentBlock)]
  /\ UNCHANGED <<chainVars, outsideScan, paginationVars>>

\* the window's records are filtered: the loop is left with them, or goes on
\* below the window
ScanFilter ==
  /\ scan.phase = "filter"
  /\ LET filteredTransactions ==
           SelectSeq(scan.batchTransactions,
                     LAMBDA tx : tx.transactionNumber > scan.since)
     IN scan' = IF Len(filteredTransactions) > 0
                THEN [scan EXCEPT !.phase = "loop",
                                  !.batchTransactions = <<>>,
                                  !.transactions = filteredTransactions]
                ELSE [scan EXCEPT !.phase = "loop",
                                  !.batchTransactions = <<>>,
                                  !.currentBlock = scan.fromBlock - 1]
  /\ UNCHANGED <<chainVars, outsideScan, paginationVars>>

\* the loop condition fails: the records are sorted and read returns them
ScanReturns ==
  /\ scan.phase = "loop"
  /\ ~scanContinues(scan)
  /\ LET transactions == SortByTransactionNumber(scan.transactions)
     IN scan' = [scan EXCEPT !.phase = "returned",
                             !.transactions = transactions,
                             !.moreTransactions =
                               shouldCheckForMoreTransactions(transactions, TRUE)]
  /\ UNCHANGED <<chainVars, outsideScan, paginationVars>>

\* the fetch of a window throws: read rethrows
ScanThrows ==
  /\ scan.phase = "loop"
  /\ scanContinues(scan)
  /\ scan' = [scan EXCEPT !.phase = "threw"]
  /\ UNCHANGED <<chainVars, outsideScan, paginationVars>>

ScanNext ==
  \/ LedgerMine
  \/ ScanConfigUpdate
  \/ ReadAfterNumber
  \/ ScanFetch
  \/ ScanFilter
  \/ ScanReturns
  \/ ScanThrows

\* a promise that resolved is continued: the steps of a running read are
\* weakly fair
ScanFairness ==
  /\ WF_vars(ScanFetch)
  /\ WF_vars(ScanFilter)
  /\ WF_vars(ScanReturns)

ScanSpec == Init /\ [][ScanNext]_vars /\ ScanFairness

\* --------------------------------------- the callers of getSyncState, alone
\* Observer.getSyncState of packages/core: a copy of the sync state
GetSyncState ==
  /\ returnedSyncState' =
       [by |-> "core", shared |-> FALSE, value |-> syncState]
  /\ UNCHANGED <<observerWorld, casVars, anchorVars, paginationVars,
                 searchVars, scanVars, zksyncSyncState,
                 stopVars,
                 serviceVars>>

\* Observer.getSyncState of packages/ledger-zksync: the sync state itself
ZksyncGetSyncState ==
  /\ returnedSyncState' =
       [by |-> "zksync", shared |-> TRUE, value |-> zksyncSyncState]
  /\ UNCHANGED <<observerWorld, casVars, anchorVars, paginationVars,
                 searchVars, scanVars, zksyncSyncState,
                 stopVars,
                 serviceVars>>

\* HistoricalSyncMonitor.getSyncStatistics: the syncState of its result is
\* what its Observer's getSyncState returned
GetSyncStatistics ==
  /\ returnedSyncState' =
       [by |-> "monitor", shared |-> TRUE, value |-> zksyncSyncState]
  /\ UNCHANGED <<observerWorld, casVars, anchorVars, paginationVars,
                 searchVars, scanVars, zksyncSyncState,
                 stopVars,
                 serviceVars>>

\* the caller assigns to a field of the value it was returned
ModifyReturned ==
  /\ returnedSyncState.by # "none"
  /\ \E value \in modifiedSyncStates(returnedSyncState.value) :
       /\ returnedSyncState' = [returnedSyncState EXCEPT !.value = value]
       /\ zksyncSyncState' = IF returnedSyncState.shared THEN value
                             ELSE zksyncSyncState
  /\ UNCHANGED <<observerWorld, casVars, anchorVars, paginationVars,
                 searchVars, scanVars,
                 stopVars,
                 serviceVars>>

SyncStateNext ==
  \/ GetSyncState
  \/ ZksyncGetSyncState
  \/ GetSyncStatistics
  \/ ModifyReturned

SyncStateSpec == Init /\ [][SyncStateNext]_vars

\* ------------------------------------------ a stop on the started observer
\* Observer.stopPeriodicProcessing, called once after startPeriodicProcessing
\* has returned: before the queued callback has run, or at one of the
\* moments at which the loops test the flag
StopAfterStart ==
  /\ pc = "queued" \/ StopObserved
  /\ ~stopCalled
  /\ continuePeriodicProcessing' = FALSE
  /\ stopCalled' = TRUE
  /\ UNCHANGED <<chainVars, storeVars, pc, syncState,
                 transactionsUnderProcessing, cursorTransaction, loopVars,
                 histAll, unresolvableTransactionStatus, bestKnownValid,
                 addLog, events, restarts, rewindFrom>>
  /\ UNCHANGED <<casVars, anchorVars, paginationVars, searchVars, scanVars,
                 monitorVars, serviceVars>>

StopNext ==
  \/ ZksyncNext
  \/ StopAfterStart

StopSpec == Init /\ [][StopNext]_vars /\ ZksyncFairness

\* ------------------------------------------------- the HTTP service, alone
\* everything but the service
outsideService == <<observerWorld, casVars, anchorVars, paginationVars,
                    searchVars, scanVars, monitorVars, stopVars>>

\* a request arrives and its handler runs initializeService up to its first
\* await: the first request creates the manager and calls init, which calls
\* the factory; a later one finds the manager and returns it
RequestArrives(r) ==
  /\ requests[r].pc = "none"
  /\ IF ~serviceManager.created
     THEN /\ serviceManager' = [NewServiceManager EXCEPT !.init = "running"]
          /\ factoryCalls' = factoryCalls + 1
          /\ requests' = [requests EXCEPT ![r].pc = "init"]
     ELSE /\ requests' = [requests EXCEPT ![r].pc = "initialized"]
          /\ UNCHANGED <<serviceManager, factoryCalls>>
  /\ UNCHANGED outsideService

\* the factory resolves: init sets sidetree and returns, initializeService
\* returns the manager to the request that awaited init
FactoryResolves ==
  /\ serviceManager.init = "running"
  /\ serviceManager' = [serviceManager EXCEPT !.sidetree = "method",
                                              !.init = "returned"]
  /\ requests' = [r \in Requests |->
                    IF requests[r].pc = "init"
                    THEN [requests[r] EXCEPT !.pc = "initialized"]
                    ELSE requests[r]]
  /\ UNCHANGED <<factoryCalls, outsideService>>

\* the factory rejects: init and initializeService reject, the handler of
\* the request that awaited init answers 500
FactoryRejects ==
  /\ serviceManager.init = "running"
  /\ serviceManager' = [serviceManager EXCEPT !.init = "threw"]
  /\ requests' = [r \in Requests |->
                    IF requests[r].pc = "init"
                    THEN [requests[r] EXCEPT !.pc = "failed"]
                    ELSE requests[r]]
  /\ UNCHANGED <<factoryCalls, outsideService>>

\* the handler goes on after `await initializeService()`: it reads
\* service.sidetree and serves the request with it
RequestProceeds(r) ==
  /\ requests[r].pc = "initialized"
  /\ requests' = [requests EXCEPT ![r].pc = "served",
                                  ![r].sidetree = serviceManager.sidetree]
  /\ UNCHANGED <<serviceManager, factoryCalls, outsideService>>

ServiceNext ==
  \/ \E r \in Requests : RequestArrives(r)
  \/ FactoryResolves
  \/ FactoryRejects
  \/ \E r \in Requests : RequestProceeds(r)

ServiceSpec == Init /\ [][ServiceNext]_vars

\* ================================================================= claims
ReorgEvent == "observer_block_reorganization"

\* the entries a consolidation would store now
consecutivelyProcessed ==
  SubSeq(transactionsUnderProcessing, 1,
         consecutiveProcessed(transactionsUnderProcessing, 0))

\* C1: with no reorg in between, every addTransaction call carries a
\* transactionNumber greater than that of the previous addTransaction call.
C1_AddedInStrictlyIncreasingOrder ==
  \A i \in 1..(Len(addLog) - 1) : addLog[i] < addLog[i + 1]

\* C2: with no reorg, addTransaction is invoked at most once per
\* transactionNumber, across the historical loop and across the live loop.
C2_AddedAtMostOnce ==
  \A i \in 1..Len(addLog) : \A j \in 1..Len(addLog) :
    addLog[i] = addLog[j] => i = j

\* the step adds record t to the transaction store after the processor
\* returned true for it
addedAfterSuccess(t) ==
  IF pc = "histStore"
  THEN historicalEntry.transaction = t /\ historicalEntry.outcome = "true"
  ELSE \E i \in 1..Len(consecutivelyProcessed) :
         /\ consecutivelyProcessed[i].transaction = t
         /\ consecutivelyProcessed[i].outcome = "true"

\* C3: a record is added to the transaction store only after its processing
\* succeeded: no step of the historical loop or of the consolidation adds a
\* record whose processor returned false or threw.
C3_AddedOnlyAfterSuccess ==
  [][\A t \in txStore' \ txStore : addedAfterSuccess(t)]_vars

\* the three stores hold nothing later than transaction number V (nothing at
\* all when there is no V)
nothingLaterThan(V) ==
  /\ \A k \in opStore : V # NoNumber /\ k <= V
  /\ \A t \in unresStore : V # NoNumber /\ t.transactionNumber <= V
  /\ \A t \in txStore : V # NoNumber /\ t.transactionNumber <= V

\* C4: when the rewind has completed with best known valid transaction V,
\* the operation store, the unresolvable store and the transaction store
\* hold nothing later than V; with no valid transaction all three are empty.
C4_RewindLeavesNothingLater ==
  pc = "reverted" => nothingLaterThan(bestKnownValid)

\* a rewind to a valid transaction has completed and has removed records
C4_RewoundToValid ==
  /\ pc = "reverted"
  /\ bestKnownValid # NoNumber
  /\ rewindFrom.store # txStore
  /\ opStore # {}

\* a record later than V that the transaction store held when the rewind
\* began is gone from it
transactionRemovedByRewind ==
  \E t \in rewindFrom.store :
    t.transactionNumber > rewindFrom.valid /\ t \notin txStore

\* C5: in every state from the start of a rewind on, a crash in its middle
\* included, if a transaction-store record later than V has been removed
\* then no operation later than V and no unresolvable later than V is left.
C5_TransactionsRemovedLast ==
  (rewindFrom.active /\ transactionRemovedByRewind)
    => /\ \A k \in opStore : k <= rewindFrom.valid
       /\ \A t \in unresStore : t.transactionNumber <= rewindFrom.valid

\* the process died after the rewind removed transaction records
C5_CrashedAfterRemoval ==
  /\ rewindFrom.active
  /\ transactionRemovedByRewind
  /\ restarts > 0
  /\ pc = "constructed"

RewindStates == {"quiesce", "revertOperations", "revertUnresolvables",
                 "revertTransactions", "reverted"}

\* C6: the live loop enters the rewind exactly when the read failed with
\* InvalidTransactionNumberOrTimeHash and the cursor's transactionTime is at
\* most the chain's latest time; it then emits the block-reorganization
\* event, and after the rewind the loop reads again.
C6_RewindIffInvalidCursorNotAhead ==
  [][LET cursor == getLastTransaction(txStore)
     IN /\ (pc = "read" /\ pc' \in {"quiesce", "backpressure"})
             => /\ (pc' = "quiesce") <=>
                     (readIsInvalid(cursor) /\ cursor.transactionTime <= tip)
                /\ (pc' = "quiesce") =>
                     /\ events' = Append(events, ReorgEvent)
                     /\ moreTransactions'
        /\ (pc' \in RewindStates /\ pc \notin RewindStates) => pc = "read"
        /\ (pc = "reverted" /\ pc' # "constructed") => pc' = "read"]_vars

\* a rewind that removed records has been made and the loop is about to
\* read again
C6_RewoundAndReadingAgain ==
  /\ pc = "reverted"
  /\ rewindFrom.store # txStore
  /\ moreTransactions
  /\ events # <<>> /\ events[Len(events)] = ReorgEvent

\* C7: when the read failed with InvalidTransactionNumberOrTimeHash and the
\* cursor's transactionTime is greater than the chain's latest time, the
\* loop removes nothing from the three stores, emits no block-reorganization
\* event and goes on to the unresolvable sweep without another read.
C7_BehindChainNoRewind ==
  [][LET cursor == getLastTransaction(txStore)
     IN /\ (/\ pc = "read" /\ pc' \in {"quiesce", "backpressure"}
            /\ readIsInvalid(cursor) /\ cursor.transactionTime > tip)
             => /\ pc' = "backpressure"
                /\ storeVars' = storeVars
                /\ events' = events
                /\ ~moreTransactions'
        /\ (/\ pc = "backpressure" /\ invalidTransactionNumberOrTimeHash
            /\ pc' \notin {"backpressure", "constructed"})
             => /\ pc' = "sweep"
                /\ opStore' = opStore /\ unresStore' = unresStore
                /\ txStore \subseteq txStore'
                /\ events' = events]_vars

\* the read failed on a cursor ahead of the chain and the loop has moved on
\* to the sweep with the stores still holding the cursor's record
C7_BehindChainMovedOn ==
  /\ pc = "sweep"
  /\ invalidTransactionNumberOrTimeHash
  /\ ~blockReorganizationDetected
  /\ txStore # {}
  /\ getLastTransaction(txStore).transactionTime > tip

C9_ThrowEndsInError ==
  /\ \A i \in 1..Len(transactionsUnderProcessing) :
       transactionsUnderProcessing[i].outcome = "threw"
         => transactionsUnderProcessing[i].processingStatus = Error
  /\ \A i \in 1..Len(unresolvableTransactionStatus) :
       unresolvableTransactionStatus[i].outcome = "threw"
         => unresolvableTransactionStatus[i].processingStatus = Error
  /\ historicalEntry.outcome = "threw"
       => historicalEntry.processingStatus = Error

\* entries k < j were admitted by the same read
sameRead(k, j) ==
  \A m \in (k + 1)..j : ~transactionsUnderProcessing[m].first

\* C10: if the processor threw on record k of the records admitted by one
\* live read, no record of that read after k is added to the transaction
\* store.
C10_NothingAddedAfterThrow ==
  [][\A k \in 1..Len(transactionsUnderProcessing) :
       \A j \in (k + 1)..Len(transactionsUnderProcessing) :
         (transactionsUnderProcessing[k].outcome = "threw" /\ sameRead(k, j))
           => transactionsUnderProcessing[j].transaction
                \notin (txStore' \ txStore)]_vars

\* the block height of the block a record names by its hash
blockHeight(transaction) == transaction.transactionTime

\* the callback of startPeriodicProcessing has decided the sync state
SyncStateDecided == pc = "queued" /\ pc' \in {"histLoop", "live"}

\* C11: on start the sync state is decided from the chain tip and the last
\* stored record. With no stored record the phase is historical with
\* lastSyncedBlock = contractDeploymentBlock and isComplete false; with a
\* stored record whose block the chain has, and gap = targetBlock minus the
\* height of that block, the phase is historical resuming at that height
\* when gap > batchSize, and live with isComplete true when gap <= batchSize.
C11_SyncStateDecidedOnStart ==
  [][SyncStateDecided =>
       LET last == getLastTransaction(txStore)
           gap == syncState'.targetBlock - blockHeight(last)
       IN /\ syncState'.targetBlock = tip
          /\ last = Undefined =>
               /\ syncState'.phase = "historical"
               /\ syncState'.lastSyncedBlock = syncState'.contractDeploymentBlock
               /\ ~syncState'.isComplete
          /\ last # Undefined /\ IsOnChain(last) /\ gap > batchSize =>
               /\ syncState'.phase = "historical"
               /\ syncState'.lastSyncedBlock = blockHeight(last)
               /\ ~syncState'.isComplete
          /\ last # Undefined /\ IsOnChain(last) /\ gap <= batchSize =>
               /\ syncState'.phase = "live"
               /\ syncState'.isComplete]_vars

\* a start over a non-empty store that resumes the historical sync at the
\* height of the last stored record
C11_ResumedBehindTheTip ==
  /\ pc = "histLoop"
  /\ txStore # {}
  /\ IsOnChain(getLastTransaction(txStore))
  /\ syncState.phase = "historical"
  /\ syncState.lastSyncedBlock = blockHeight(getLastTransaction(txStore))
  /\ syncState.targetBlock - syncState.lastSyncedBlock > batchSize
  /\ ~syncState.isComplete

\* C12: in every state whose phase is historical (after the sync state is
\* decided and after every historical batch, retried batches included),
\* contractDeploymentBlock <= lastSyncedBlock <= targetBlock.
C12_LastSyncedBlockWithinBounds ==
  syncState.phase = "historical" =>
    /\ syncState.contractDeploymentBlock <= syncState.lastSyncedBlock
    /\ syncState.lastSyncedBlock <= syncState.targetBlock

\* a batch cut short by the target block has been stored and the loop is
\* back at its condition
C12_ClampedBatchDone ==
  /\ pc = "histLoop"
  /\ syncState.phase = "historical"
  /\ syncState.lastSyncedBlock = syncState.targetBlock
  /\ syncState.targetBlock % batchSize # 0
  /\ txStore # {}

\* C13: in a run that started in the historical phase, the phase becomes
\* live and isComplete becomes true only in a state where lastSyncedBlock >=
\* targetBlock, whether the historical loop ended by catching up or because
\* the stop flag was set.
C13_LiveOnlyWhenCaughtUp ==
  [][pc = "histLoop" /\ syncState'.phase = "live" /\ syncState'.isComplete
       => syncState'.lastSyncedBlock >= syncState'.targetBlock]_vars

\* where the process is while performHistoricalSync runs
HistoricalLoopStates == {"histLoop", "histRetry", "histTx", "histStore"}

\* where the process is from the first call of processTransactions on
LiveLoopStates ==
  {"live", "read", "backpressure", "quiesce", "fence", "revertOperations",
   "revertUnresolvables", "revertTransactions", "reverted", "sweep",
   "sweepWait", "idle", "stopped"}

\* C14: the historical loop and the live loop never run concurrently. No
\* live-loop chain read or consolidation is started while a historical
\* batch is in progress (the live loop runs only with the historical sync
\* returned: isComplete set, no batch and no historical record pending),
\* and no historical batch is started once the live loop has begun.
C14_LoopsNeverConcurrent ==
  [][/\ pc' \in LiveLoopStates =>
          /\ syncState'.isComplete
          /\ batch' = <<>>
          /\ historicalEntry' = NoEntry
     /\ pc' \in HistoricalLoopStates =>
          /\ transactionsUnderProcessing' = <<>>
          /\ unresolvableTransactionStatus' = <<>>
     /\ pc \in LiveLoopStates => pc' \notin HistoricalLoopStates]_vars

\* the live loop reads the chain in a process whose historical sync has
\* advanced
C14_LiveReadAfterHistoricalSync ==
  /\ pc = "read"
  /\ syncState.lastSyncedBlock > 0
  /\ syncState.isComplete

\* the attempts a configuration allows one batch, in total: maxRetries, and
\* one when no retry is configured
attemptsAllowed == IF maxRetries = 0 THEN 1 ELSE maxRetries

\* C15: a failing historical batch is attempted at most maxRetries times in
\* total before the failure is treated as fatal, for every configured
\* maxRetries.
C15_AttemptsAtMostMaxRetries == failedAttempts <= attemptsAllowed

\* an attempt at a batch throws and the configuration leaves no attempt:
\* the first attempt when maxRetries is 0, else the retry that brings
\* retryCount to maxRetries
FinalAttemptFails ==
  /\ failedAttempts' = failedAttempts + 1
  /\ IF pc = "histLoop" THEN maxRetries = 0 ELSE retryCount + 1 >= maxRetries

\* C16: when the final attempt of a historical batch fails, the historical
\* walk aborts with the error surfaced: no further batch is requested,
\* lastSyncedBlock is not advanced past the failed batch and the records
\* stored by earlier batches remain in the transaction store, for every
\* maxRetries >= 0.
C16_FinalFailureAborts ==
  [][FinalAttemptFails =>
       /\ pc' = "failed"
       /\ syncState'.lastSyncedBlock = syncState.lastSyncedBlock
       /\ txStore' = txStore]_vars

\* stopPeriodicProcessing has cleared the flag the callback had set
StopFlagSet ==
  /\ ~continuePeriodicProcessing
  /\ pc \notin {"constructed", "queued"}

\* the historical loop starts an attempt at a batch
HistoricalBatchStarts ==
  /\ pc = "histLoop"
  /\ \/ pc' \in {"histTx", "histRetry"}
     \/ syncState'.lastSyncedBlock # syncState.lastSyncedBlock

\* processTransactions is entered: a live-loop iteration starts
LiveIterationStarts == pc = "live" /\ pc' = "read"

\* C17: once stopPeriodicProcessing has set the stop flag, the historical
\* loop starts no further batch and the live loop starts no further
\* iteration (no new chain read); only work in flight finishes.
C17_NothingStartsAfterStop ==
  [][StopFlagSet => ~HistoricalBatchStarts /\ ~LiveIterationStarts]_vars

LoopFailureEvent == "observer_loop_failure"
LoopSuccessEvent == "observer_loop_success"

\* the events the running iteration has emitted
emitted == {events[i] : i \in 1..Len(events)}

\* a throw inside the read loop ends the iteration
IterationEndsInReadLoop == pc = "read" /\ pc' \in {"idle", "stopped"}

NoAnchorAfterLastStored ==
  /\ txStore # {}
  /\ \A i \in 1..Len(anchors) :
       anchors[i].transactionNumber
         <= getLastTransaction(txStore).transactionNumber

\* C18: a cursor-driven read returns only records strictly after the
\* cursor. For the cursor (n, h) of the last stored record, read(n, h)
\* returns no record with transactionNumber <= n, and it returns no record
\* at all when the chain has no anchor after the cursor.
C18_ReadReturnsOnlyLaterRecords ==
  pc = "read" /\ txStore # {} =>
    LET cursor == getLastTransaction(txStore)
        transactions == zksyncRead(cursor).transactions
    IN /\ \A i \in 1..Len(transactions) :
            transactions[i].transactionNumber > cursor.transactionNumber
       /\ NoAnchorAfterLastStored => transactions = <<>>

\* C19: when the chain holds no anchor after the last stored record, every
\* live-loop iteration eventually leaves its read loop, runs the sweep of
\* the unresolvable records and emits the loop success event; a spurious
\* moreTransactions = true never keeps the iteration in its read loop.
C19_ReadLoopEnds ==
  (pc = "read" /\ NoAnchorAfterLastStored)
    ~> (pc = "idle" /\ LoopSuccessEvent \in emitted)

\* the sweep fetches the records due for retry and starts their tasks
SweepStarts == pc = "sweep" /\ pc' = "sweepWait"

\* the iteration ends after the sweep
SweepEnds == pc = "sweepWait" /\ pc' \in {"idle", "stopped"}

\* C21: the retry sweep starts processing for every record the unresolvable
\* store reports as due (each gets an entry in Processing status), and the
\* loop success event and the scheduling of the next iteration happen only
\* after every one of those records has left Processing status.
C21_SuccessOnlyAfterSweepDrained ==
  [][/\ SweepStarts =>
          \A i \in 1..Len(unresolvableTransactionStatus') :
            /\ unresolvableTransactionStatus'[i].processingStatus = Processing
            /\ unresolvableTransactionStatus'[i].transaction \in unresStore
     /\ SweepEnds =>
          /\ \A i \in 1..Len(unresolvableTransactionStatus) :
               unresolvableTransactionStatus[i].processingStatus # Processing
          /\ events' = Append(events, LoopSuccessEvent)
     /\ LoopSuccessEvent \in {events'[i] : i \in 1..Len(events')} =>
          \A i \in 1..Len(unresolvableTransactionStatus') :
            unresolvableTransactionStatus'[i].processingStatus # Processing]_vars

\* a sweep over at least one due record has drained and the success event
\* is about to be emitted
C21_SweepDrained ==
  /\ pc = "sweepWait"
  /\ Len(unresolvableTransactionStatus) > 0
  /\ \A i \in 1..Len(unresolvableTransactionStatus) :
       unresolvableTransactionStatus[i].processingStatus = Processed

\* the record is in the unresolvable store
recordedUnresolvable(store, t) ==
  \E x \in store : x.transactionNumber = t.transactionNumber

\* the processor returns false on the i-th entry of the live loop
LiveProcessingFails(i) ==
  /\ Len(transactionsUnderProcessing') = Len(transactionsUnderProcessing)
  /\ transactionsUnderProcessing[i].processingStatus = Processing
  /\ transactionsUnderProcessing'[i].transaction
       = transactionsUnderProcessing[i].transaction
  /\ transactionsUnderProcessing'[i].outcome = "false"

\* the processor returns false on the record of a historical round
HistoricalProcessingFails ==
  pc = "histTx" /\ pc' = "histStore" /\ historicalEntry'.outcome = "false"

\* C22: when processing of a record fails (the processor returns false), an
\* unresolvable fetch attempt for that record is recorded in the
\* unresolvable store, in the historical loop as well as in the live loop.
C22_FailureRecordedAsUnresolvable ==
  [][/\ \A i \in 1..Len(transactionsUnderProcessing) :
          LiveProcessingFails(i) =>
            recordedUnresolvable(unresStore',
                                 transactionsUnderProcessing[i].transaction)
     /\ HistoricalProcessingFails =>
          recordedUnresolvable(unresStore', historicalEntry'.transaction)]_vars

\* the first run over a chain that has not reorganized: every record of
\* the unresolvable store was put there by this run's historical loop,
\* when the storing of the record failed
FirstRun == restarts = 0 /\ epoch = 0

\* C23: in historical mode, if processing or persisting transaction N fails
\* fatally, the historical loop aborts and no record with transactionNumber
\* > N is added to the transaction store in that run, so the persisted
\* sequence has no gap at N.
C23_NothingStoredPastFailure ==
  [][FirstRun /\ pc = "histStore" =>
       \A t \in txStore' \ txStore :
         \A n \in unresStore :
           n.transactionNumber < t.transactionNumber => n \in txStore]_vars

\* the record is an entry of the under-processing list
underProcessing(t) ==
  \E i \in 1..Len(transactionsUnderProcessing) :
    transactionsUnderProcessing[i].transaction = t

\* C24: a record the throughput limiter drops from an admission is not
\* lost. The cursor (the last stored record) never advances past a record
\* of the chain that is neither stored nor under processing, so the record
\* is returned by a later live read.
C24_CursorNotPastDroppedRecord ==
  txStore # {} =>
    \A i \in 1..Len(anchors) :
      anchors[i].transactionNumber
          < getLastTransaction(txStore).transactionNumber
        => anchors[i] \in txStore \/ underProcessing(anchors[i])

\* the cursor of the next read names a block the chain no longer has
StaleCursor ==
  /\ pc = "read"
  /\ txStore # {}
  /\ ~IsOnChain(getLastTransaction(txStore))

\* C25: the chain client's cursor read fails with the
\* InvalidTransactionNumberOrTimeHash error whenever it is given a
\* (transactionNumber, transactionTimeHash) whose hash no longer matches
\* the chain; it never answers such a cursor with a normal result.
C25_StaleCursorIsInvalid ==
  StaleCursor =>
    /\ zksyncRead(getLastTransaction(txStore)).invalid
    /\ originalZksyncRead(getLastTransaction(txStore)).invalid

\* the cursor the next chain read is issued with: the number and the hash of
\* the last record of the transaction store, none for an empty store
cursorOfNextRead(store) == getLastTransaction(store)

\* the states of a live iteration from the end of a rewind to the next read
FromRewindToRead == {"reverted", "sweep", "sweepWait", "idle", "live"}

\* the record the probe of the running rewind answered, taken from the store
\* the probe sampled
probedValid ==
  IF bestKnownValid = NoNumber THEN Undefined
  ELSE CHOOSE t \in rewindFrom.store : t.transactionNumber = bestKnownValid

\* C26: after a reorg rewind whose probe yields the valid transaction V the
\* cursor is cleared and the next chain read is issued with the cursor
\* (V.transactionNumber, V.transactionTimeHash); when the probe yields none
\* the next read is issued without a cursor.  (When the rewind returns, the
\* last stored record is V, or the store is empty, and no record is under
\* processing; the step after it clears the in-memory cursor; and with no
\* record under processing no step up to the next read writes the store.)
C26_NextReadFromProbedValid ==
  [][/\ pc' = "reverted"
          => /\ cursorOfNextRead(txStore') = probedValid'
             /\ transactionsUnderProcessing' = <<>>
     /\ pc = "reverted" /\ pc' \in {"read", "sweep"}
          => cursorTransaction' = Undefined
     /\ pc \in FromRewindToRead /\ transactionsUnderProcessing = <<>>
          => /\ txStore' = txStore
             /\ transactionsUnderProcessing' = <<>>]_vars

\* a rewind that removed records has returned with a valid transaction and
\* the loop is about to read again
C26_RewoundToValid ==
  /\ pc = "reverted"
  /\ moreTransactions
  /\ bestKnownValid # NoNumber
  /\ getLastTransaction(rewindFrom.store).transactionNumber > bestKnownValid
  /\ cursorOfNextRead(txStore).transactionNumber = bestKnownValid

\* the last read found a file with a content before any error
ContentFound ==
  \E i \in 1..Len(ipfsResponse.files) :
    /\ ipfsResponse.files[i] # NoContent
    /\ ipfsResponse.failure # NoFailure => i <= ipfsResponse.failure.at

\* the first content the last read found
contentFound ==
  ipfsResponse.files[
    CHOOSE i \in 1..Len(ipfsResponse.files) :
      /\ ipfsResponse.files[i] # NoContent
      /\ \A j \in 1..(i - 1) : ipfsResponse.files[j] = NoContent]

\* the last read timed out, or was told that the content is not found
TimedOutOrNotFound ==
  IF ipfsResponse.failure = NoFailure THEN TRUE
  ELSE \/ ipfsResponse.failure.name = "TimeoutError"
       \/ ipfsResponse.failure.message = "not found"

\* C27: a CAS read that times out, or whose content is reported not found,
\* returns the code NotFound and raises nothing; a CAS read that finds
\* content returns Success with the content; any other failure is raised to
\* the caller.
C27_CasReadOutcome ==
  fetchResult # NoResult =>
    IF ContentFound
    THEN fetchResult = [code |-> "Success", content |-> contentFound,
                        thrown |-> NoFailure]
    ELSE IF TimedOutOrNotFound
    THEN fetchResult = [code |-> "NotFound", content |-> NoContent,
                        thrown |-> NoFailure]
    ELSE fetchResult.code = "none" /\ fetchResult.thrown = ipfsResponse.failure

\* a read timed out before any content was delivered and answered NotFound
C27_TimedOutRead ==
  /\ ipfsResponse.failure # NoFailure
  /\ ipfsResponse.failure.name = "TimeoutError"
  /\ ipfsResponse.failure.message # "not found"
  /\ ~ContentFound
  /\ Len(ipfsResponse.files) > 0
  /\ fetchResult.code = "NotFound"

\* C28: the anchor encoding round-trips: decoding an anchor log into the
\* anchor string (prefix 0x1220 prepended, base58-encoded, joined as
\* count.uri) and writing that anchor string back (base58-decoded, first two
\* bytes stripped) yields the same anchorFileHash and numberOfOperations,
\* and decoding what was written yields the same anchor string.
C28_AnchorRoundTrip ==
  anchorWritten # NoLog =>
    /\ anchorWritten = anchorLog
    /\ eventLogToAnchorString(anchorWritten) = anchorString

\* an anchor whose hash starts with a zero byte and whose count has two
\* digits went through the decoding and the write
C28_WrittenBack ==
  /\ anchorWritten # NoLog
  /\ anchorLog.anchorFileHash[3] = "0" /\ anchorLog.anchorFileHash[4] = "0"
  /\ Len(anchorLog.numberOfOperations) = 2
  /\ Len(anchorString) > 3

\* C29: after construction and after any sequence of updatePaginationConfig
\* calls the ledger's pagination configuration satisfies
\* 0 < defaultBatchSize <= maxBatchSize.
C29_PaginationConfigValid ==
  /\ 0 < paginationConfig.defaultBatchSize
  /\ paginationConfig.defaultBatchSize <= paginationConfig.maxBatchSize

\* the heights up to the latest block at which the contract has code
codeHeights == {h \in contractCode : h <= search.latestBlock}

\* the true deployment block: the least height at which the contract has code
trueDeploymentBlock ==
  CHOOSE h \in codeHeights : \A k \in codeHeights : h <= k

\* code presence is monotone in the height and the tip has code
MonotoneWithCodeAtTip ==
  /\ search.latestBlock \in codeHeights
  /\ \A h \in codeHeights : \A k \in h..search.latestBlock : k \in codeHeights

\* C30: getContractDeploymentBlock returns a block height in
\* [0, latestBlock] that is not later than the true deployment block; when
\* code presence is monotone in block height and code is present at the
\* chain tip the result is exactly the least block height at which the
\* contract has code; on an RPC failure it returns 0.
C30_DeploymentBlockFound ==
  search.phase = "returned" =>
    /\ search.result \in 0..search.latestBlock
    /\ codeHeights # {} => search.result <= trueDeploymentBlock
    /\ MonotoneWithCodeAtTip /\ ~search.failed
         => search.result = trueDeploymentBlock
    /\ search.failed => search.result = 0

\* the records a read after a number returned are in ascending order
ScanSorted ==
  \A i \in 1..(Len(scan.transactions) - 1) :
    scan.transactions[i].transactionNumber
      < scan.transactions[i + 1].transactionNumber

\* what a returned read after the number n may hold
ScanResultAfterNumber ==
  scan.phase = "returned" =>
    /\ \A i \in 1..Len(scan.transactions) :
         scan.transactions[i].transactionNumber > scan.since
    /\ ScanSorted
    /\ (\A i \in 1..Len(anchors) : anchors[i].transactionNumber <= scan.since)
         => scan.transactions = <<>> /\ ~scan.moreTransactions

\* C31: read(n) with only a transaction number returns only records whose
\* transactionNumber is greater than n, sorted ascending by
\* transactionNumber, and its backward window scan terminates; when no
\* record has a number greater than n it returns an empty list with
\* moreTransactions = false.
C31_ReadAfterNumberTerminates ==
  /\ []ScanResultAfterNumber
  /\ (scan.phase \in {"loop", "filter"}) ~> (scan.phase \in {"returned", "threw"})

\* every entry a processTransaction call was started for
entriesProcessed ==
  Range(transactionsUnderProcessing) \cup Range(unresolvableTransactionStatus)
    \cup {historicalEntry}

\* the entry's processor returned true: the entry is Processed and the
\* removal of its record was requested
ProcessedWithRemoval(e) ==
  e.outcome = "true" =>
    e.processingStatus = Processed /\ e.removal \in {"removed", "failed"}

\* a step in which the processor returned true for the entry and the
\* removal went through leaves no record of that number in the store
RemovalTakesRecord(before, after) ==
  (before.outcome = "none" /\ after.outcome = "true"
     /\ after.removal = "removed")
    => \A t \in unresStore' :
         t.transactionNumber # after.transaction.transactionNumber

\* the removals that went through in a step took their records
RemovalsTakeRecords ==
  /\ \A i \in 1..Len(transactionsUnderProcessing) :
       (Len(transactionsUnderProcessing') = Len(transactionsUnderProcessing))
         => RemovalTakesRecord(transactionsUnderProcessing[i],
                               transactionsUnderProcessing'[i])
  /\ \A i \in 1..Len(unresolvableTransactionStatus) :
       (Len(unresolvableTransactionStatus') = Len(unresolvableTransactionStatus))
         => RemovalTakesRecord(unresolvableTransactionStatus[i],
                               unresolvableTransactionStatus'[i])
  /\ (pc = "histTx") => RemovalTakesRecord(NoEntry, historicalEntry')

\* C32: when the version's processor returns true for a record,
\* processTransaction completes with the record's under-processing entry in
\* Processed status and requests removal of that record from the
\* unresolvable store; a failure of that removal does not change the
\* Processed outcome.
C32_ProcessedOnTrue ==
  /\ [](\A e \in entriesProcessed : ProcessedWithRemoval(e))
  /\ [][RemovalsTakeRecords]_vars

\* a record of the unresolvable store was processed with true, its removal
\* failed and its entry is Processed
C32_ProcessedThoughRemovalFailed ==
  \E e \in entriesProcessed :
    /\ e.outcome = "true"
    /\ e.removal = "failed"
    /\ e.processingStatus = Processed
    /\ e.transaction \in unresStore

\* C33: the sync state is read-only to everyone but the state machine and
\* the historical loop: no call to getSyncState() or to
\* HistoricalSyncMonitor.getSyncStatistics(), and no modification of a value
\* previously returned by getSyncState(), changes the observer's phase,
\* lastSyncedBlock, targetBlock, contractDeploymentBlock or isComplete.
C33_SyncStateReadOnly ==
  [][syncState' = syncState /\ zksyncSyncState' = zksyncSyncState]_vars

\* the rewind runs: from the first rollback deletion to the last
Rewinding ==
  pc \in {"revertOperations", "revertUnresolvables", "revertTransactions"}

\* no processTransaction call is in flight
NothingInFlight ==
  /\ \A e \in Range(transactionsUnderProcessing) :
       e.processingStatus # Processing
  /\ \A e \in Range(unresolvableTransactionStatus) :
       e.processingStatus # Processing

\* C34: the reorg rewind is performed only after in-flight work has
\* quiesced: at the moment the first rollback deletion is issued, no
\* under-processing entry is in Processing status, and no processing task
\* writes to the operation store between the start and the end of the
\* rewind.
C34_RewindAfterQuiesce ==
  /\ [](Rewinding => NothingInFlight)
  /\ [][Rewinding =>
          /\ opStore' \subseteq opStore
          /\ transactionsUnderProcessing' = transactionsUnderProcessing
               \/ pc' = "constructed"]_vars

\* the first rollback deletion is about to be issued on operations that the
\* tasks of this iteration wrote after the probed record
C34_RewindOfProcessedWork ==
  /\ pc = "revertOperations"
  /\ \E n \in opStore : bestKnownValid = NoNumber \/ n > bestKnownValid
  /\ "observer_block_reorganization" \in Range(events)

\* the length of the maximal prefix of Processed entries of the sequence
maximalProcessedPrefix ==
  CHOOSE k \in 0..Len(transactionsUnderProcessing) :
    /\ \A i \in 1..k :
         transactionsUnderProcessing[i].processingStatus = Processed
    /\ k < Len(transactionsUnderProcessing) =>
         transactionsUnderProcessing[k + 1].processingStatus # Processed

\* the step is one that runs the consolidation and nothing else on the
\* sequence and the transaction store
Consolidates ==
  \/ pc = "live" /\ pc' = "read"
  \/ pc = "backpressure" /\ pc' \in {"read", "sweep", "fence"}
  \/ pc = "quiesce" /\ pc' = "revertOperations"

\* the numbers of the first k entries of the sequence, in its order
prefixNumbers(k) ==
  [i \in 1..k |-> transactionsUnderProcessing[i].transaction.transactionNumber]

newestValidOf(sample) ==
  LET valid == {i \in 1..Len(sample) : IsOnChain(sample[i])}
  IN IF valid = {} THEN NoNumber
     ELSE LET newest == CHOOSE i \in valid :
                          \A j \in valid :
                            sample[j].transactionNumber
                              <= sample[i].transactionNumber
          IN sample[newest].transactionNumber

\* C36: getFirstValidTransaction(sample) returns the newest entry of the
\* sample whose (transactionNumber, transactionTimeHash) still matches the
\* chain, and returns none only when no entry of the sample matches the
\* chain.
C36_FirstValidIsNewestOnChain ==
  pc = "revertOperations" =>
    bestKnownValid
      = newestValidOf(getExponentiallySpacedTransactions(rewindFrom.store))

\* C37: a stopPeriodicProcessing() call made after startPeriodicProcessing()
\* has returned is never undone: from that call on the stop flag stays set
\* (continuePeriodicProcessing stays false) and eventually no further
\* iteration is scheduled, for every interleaving of the stop call with the
\* deferred callback that startPeriodicProcessing queued.
C37_StopIsNeverUndone ==
  /\ [](stopCalled => ~continuePeriodicProcessing)
  /\ stopCalled ~> [](pc \notin {"idle", "live"})

\* C38: at every moment the under-processing sequence holds at most one
\* entry per transactionNumber: a record that is still Processing, or
\* Processed but not yet consolidated, is never appended a second time by a
\* later read of the same live-loop iteration.
C38_OneEntryPerNumber ==
  \A i, j \in 1..Len(transactionsUnderProcessing) :
    i # j =>
      transactionsUnderProcessing[i].transaction.transactionNumber
        # transactionsUnderProcessing[j].transaction.transactionNumber

\* the step ends a batch with success: its last record was handled, or its
\* range held no record
BatchSucceeds ==
  /\ pc' = "histLoop"
  /\ \/ pc = "histStore"
     \/ pc \in {"histLoop", "histRetry"} /\ syncState' # syncState

\* the step is an attempt at a batch that failed
AttemptFails == failedAttempts' = failedAttempts + 1

\* the historical loop is running
InHistoricalLoop == pc \in {"histLoop", "histRetry", "histTx", "histStore"}

\* what a step of the historical loop does to lastSyncedBlock
BatchesAdvance ==
  /\ BatchSucceeds =>
       (syncState'.lastSyncedBlock > syncState.lastSyncedBlock)
  /\ AttemptFails =>
       (syncState'.lastSyncedBlock = syncState.lastSyncedBlock)
  /\ (InHistoricalLoop /\ pc' = "live") =>
       (syncState'.lastSyncedBlock = syncState'.targetBlock)

\* C39: with batchSize >= 1, the stop flag not set and every batch
\* eventually succeeding within its retries, the historical loop terminates
\* with lastSyncedBlock = targetBlock; every successful batch strictly
\* increases lastSyncedBlock and a failed attempt never changes it.
C39_HistoricalLoopTerminates ==
  /\ InHistoricalLoop ~>
       \/ pc = "live" /\ syncState.lastSyncedBlock = syncState.targetBlock
       \/ pc = "failed"
  /\ [][BatchesAdvance]_vars

\* the loop has ended after more than one batch, at its target
C39_SyncedInSeveralBatches ==
  /\ pc = "live"
  /\ syncState.isComplete
  /\ syncState.targetBlock > batchSize
  /\ syncState.lastSyncedBlock = syncState.targetBlock
  /\ txStore # {}

\* C40: in the HTTP service, every request that proceeds past
\* initializeService() observes a fully initialised, non-null sidetree
\* instance, and the DID-method factory is invoked at most once per process,
\* also when several requests arrive while the first initialisation is
\* still in progress.
C40_RequestsSeeInitialisedSidetree ==
  /\ \A r \in Requests :
       requests[r].pc = "served" => requests[r].sidetree = "method"
  /\ factoryCalls <= 1
====
